---- MODULE Spec2Model ----
(***************************************************************************)
(* Model of the AthenaEnv port of the platformer: input polling            *)
(* (input.js), level queries and loading (level.js), the player            *)
(* controller (player.js) and the session state machine (game.js).         *)
(*                                                                         *)
(* Number representation.  The program computes in IEEE doubles; the model *)
(* computes in exact fixed point:                                          *)
(*   time      in ticks of 1/TPS second       (1/60 s = 10, 0.1 s = 60)    *)
(*   velocity  in 1/VU pixel per second                                    *)
(*   position  in 1/PX pixel, PX = TPS * VU, so that x += vx * dt is exact *)
(* Products with 0.9, 0.4, 0.3 and the camera smoothing are rounded to the *)
(* nearest grid value by MulDiv.                                           *)
(*                                                                         *)
(* Math.random() is a nondeterministic choice from a small set of values   *)
(* of its range.  A particle is modelled by its lifetime fields; its       *)
(* position, velocity, size and colour feed nothing but the renderer.      *)
(***************************************************************************)
EXTENDS Integers, Sequences, FiniteSets, TLC

VARIABLES
    pc,                 \* "init" before main.js init() has run, "loop" after
    pad,                \* state of controller port 0 as of the last poll
    input,              \* the Input object
    dt,                 \* dt of the last Game.update call (ticks)
    state,              \* Game.state
    player,             \* Game.player
    level,              \* Game.level: a reference, resolved by Lvl
    currentLevelIndex,  \* Game.currentLevelIndex
    levelTime,          \* Game.levelTime (ticks)
    totalTime,          \* Game.totalTime (ticks)
    deathCount,         \* Game.deathCount
    deathTimer,         \* Game.deathTimer (ticks)
    camera,             \* Game.camera
    particles,          \* Game.particles
    loaded,             \* what the loader made of each level file the last
                        \* init() or Game.update call asked for, in call order
    q,                  \* a query and its answers (SpecLevel, SpecRect)
    hist                \* what the Player.update calls made so far did
                        \* (SpecPlay, SpecRest, SpecFall)

vars == <<pc, pad, input, dt, state, player, level, currentLevelIndex,
          levelTime, totalTime, deathCount, deathTimer, camera, particles,
          loaded, q, hist>>

gameVars == <<state, player, level, currentLevelIndex, levelTime, totalTime,
              deathCount, deathTimer, camera, particles>>

----------------------------------------------------------------------------
(* Units *)

TPS == 600
VU == 10
PX == TPS * VU

\* a * n / d rounded to the nearest integer, halves away from zero
MulDiv(a, n, d) ==
    IF a * n >= 0 THEN (a * n + d \div 2) \div d
    ELSE -((-(a * n) + d \div 2) \div d)

Abs(a) == IF a < 0 THEN -a ELSE a

\* Math.floor(a / b) for b > 0
FloorDiv(a, b) == a \div b

----------------------------------------------------------------------------
(* Bounds of the model *)

\* levelN.json exists for no N above this
NumLevelFiles == 3
\* Game.update is not called in Playing once totalTime passed this many
\* longest frames
MaxPlayFrames == 1
\* no further death once deathCount reached this
MaxDeaths == 2

\* main.js caps dt at 0.1 s; the model runs frames of 0.05 s and of 0.1 s
DT_CAP == TPS \div 10
DT_HALF == TPS \div 20
DtSet == {DT_HALF, DT_CAP}

----------------------------------------------------------------------------
(* level.js *)

TILE_SIZE == 16 * PX

EMPTY == 0
SOLID == 1
PLATFORM == 2

\* Game.level = null
NULL == -1
\* the Level made by createDefaultLevel
DEFAULT_LEVEL == 0

Rect(x, y, w, h) == [x |-> x, y |-> y, width |-> w, height |-> h]

\* new Level()
NewLevel ==
    [width |-> 0, height |-> 0, tiles |-> <<>>, hazards |-> <<>>,
     spawnX |-> 0, spawnY |-> 0, goalRect |-> Rect(0, 0, 0, 0),
     parTime |-> 30 * TPS]

\* level.tiles[index]: the array is 0-based, the sequence 1-based
TileAt(lv, index) == lv.tiles[index + 1]

\* JavaScript a || b on numbers: 0 (and a missing field, modelled as 0) is falsy
OrElse(a, b) == IF a = 0 THEN b ELSE a

\* Level.getTile
LevelGetTile(lv, x, y) ==
    IF x < 0 \/ x >= lv.width THEN SOLID
    ELSE IF y < 0 \/ y >= lv.height THEN EMPTY
    ELSE OrElse(TileAt(lv, y * lv.width + x), EMPTY)

\* setTile without the range checks: an index past the end grows the array
SetTileMutNoCheck(lv, x, y, tile) ==
    LET i == y * lv.width + x + 1
    IN IF i < 1 THEN lv
       ELSE IF i <= Len(lv.tiles) THEN [lv EXCEPT !.tiles[i] = tile]
       ELSE [lv EXCEPT !.tiles = @ \o [k \in 1..(i - Len(@) - 1) |-> EMPTY]
                                   \o <<tile>>]

\* Level.setTile
SetTile(lv, x, y, tile) ==
    IF x < 0 \/ x >= lv.width THEN lv
    ELSE IF y < 0 \/ y >= lv.height THEN lv
    ELSE [lv EXCEPT !.tiles[y * lv.width + x + 1] = tile]

\* isSolidTile looking at the row first and without the side walls
isSolidTileMutSides(lv, x, y) ==
    IF y < 0 THEN TRUE
    ELSE IF y >= lv.height THEN FALSE
    ELSE IF x < 0 \/ x >= lv.width THEN FALSE
    ELSE TileAt(lv, y * lv.width + x) = SOLID

\* isSolidTile with a solid bottom edge
isSolidTileMutBottom(lv, x, y) ==
    IF x < 0 \/ x >= lv.width THEN TRUE
    ELSE IF y < 0 \/ y >= lv.height THEN TRUE
    ELSE TileAt(lv, y * lv.width + x) = SOLID

\* isSolidTile taking every tile that is not Empty for solid
isSolidTileMutPlatform(lv, x, y) ==
    IF x < 0 \/ x >= lv.width THEN TRUE
    ELSE IF y < 0 THEN TRUE
    ELSE IF y >= lv.height THEN FALSE
    ELSE TileAt(lv, y * lv.width + x) # EMPTY

\* isSolidTile
isSolidTile(lv, x, y) ==
    IF x < 0 \/ x >= lv.width THEN TRUE
    ELSE IF y < 0 THEN TRUE
    ELSE IF y >= lv.height THEN FALSE
    ELSE TileAt(lv, y * lv.width + x) = SOLID

\* getTile
getTile(lv, x, y) ==
    IF x < 0 \/ x >= lv.width THEN SOLID
    ELSE IF y < 0 \/ y >= lv.height THEN EMPTY
    ELSE OrElse(TileAt(lv, y * lv.width + x), EMPTY)

Min(a, b) == IF a < b THEN a ELSE b

\* loadLevel on parsed JSON data: a record with the fields of the level file
\* format; a missing number is 0, a missing spawn or goal has present = FALSE
loadLevel(data) ==
    LET w == OrElse(data.width, 40)
        h == OrElse(data.height, 23)
        rows == Min(Len(data.tiles), h)
        cell(i) ==
            LET y == i \div w
                x == i % w
            IN IF y < rows /\ x < Len(data.tiles[y + 1])
               THEN data.tiles[y + 1][x + 1]
               ELSE EMPTY
        hz(r) == Rect(OrElse(r.x, 0) * TILE_SIZE, OrElse(r.y, 0) * TILE_SIZE,
                      OrElse(r.width, 1) * TILE_SIZE,
                      OrElse(r.height, 1) * TILE_SIZE)
    IN [width |-> w,
        height |-> h,
        tiles |-> [i \in 1..(w * h) |-> cell(i - 1)],
        hazards |-> [i \in 1..Len(data.hazards) |-> hz(data.hazards[i])],
        spawnX |-> IF data.spawn.present
                   THEN OrElse(data.spawn.x, 2) * TILE_SIZE + TILE_SIZE \div 2
                   ELSE 2 * TILE_SIZE + TILE_SIZE \div 2,
        spawnY |-> IF data.spawn.present
                   THEN OrElse(data.spawn.y, 2) * TILE_SIZE + TILE_SIZE \div 2
                   ELSE 2 * TILE_SIZE + TILE_SIZE \div 2,
        goalRect |-> IF data.goal.present
                     THEN Rect(OrElse(data.goal.x, 38) * TILE_SIZE,
                               OrElse(data.goal.y, 20) * TILE_SIZE,
                               OrElse(data.goal.width, 2) * TILE_SIZE,
                               OrElse(data.goal.height, 2) * TILE_SIZE)
                     ELSE NewLevel.goalRect,
        parTime |-> OrElse(data.par_time, NewLevel.parTime)]

\* createDefaultLevel: the setTile calls in the order of the source; a later
\* call overwrites an earlier one, and all of them write SOLID
createDefaultLevel ==
    LET w == 40
        h == 23
        solid(x, y) ==
            \/ y = h - 1 \/ y = h - 2
            \/ x = 0 \/ x = w - 1
            \/ (y = 18 /\ x >= 5 /\ x <= 10)
            \/ (y = 15 /\ x >= 15 /\ x <= 20)
            \/ (y = 12 /\ x >= 25 /\ x <= 30)
            \/ (x = 33 /\ y >= 5 /\ y <= 17)
    IN [width |-> w,
        height |-> h,
        tiles |-> [i \in 1..(w * h) |->
                     IF solid((i - 1) % w, (i - 1) \div w) THEN SOLID ELSE EMPTY],
        hazards |-> <<Rect(12 * TILE_SIZE, 20 * TILE_SIZE,
                           3 * TILE_SIZE, 1 * TILE_SIZE)>>,
        spawnX |-> 3 * TILE_SIZE + TILE_SIZE \div 2,
        spawnY |-> 20 * TILE_SIZE + TILE_SIZE \div 2,
        goalRect |-> Rect(36 * TILE_SIZE, 4 * TILE_SIZE,
                          2 * TILE_SIZE, 2 * TILE_SIZE),
        parTime |-> 15 * TPS]

----------------------------------------------------------------------------
(* The level files on the disc: assets/levels/level<n>.json.  They are not  *)
(* part of the program; these are the files the model runs the program on. *)

Absent == [present |-> FALSE, x |-> 0, y |-> 0, width |-> 0, height |-> 0]
Given(x, y, w, h) == [present |-> TRUE, x |-> x, y |-> y, width |-> w, height |-> h]

\* a floor, a hazard two tiles left of the spawn point, the goal two tiles right
FloorLevelJSON ==
    [width |-> 6, height |-> 4, par_time |-> 0,
     tiles |-> << <<0, 0, 0, 0, 0, 0>>, <<0, 0, 0, 0, 0, 0>>,
                  <<0, 0, 0, 0, 0, 0>>, <<1, 1, 1, 1, 1, 1>> >>,
     spawn |-> Given(2, 2, 0, 0),
     goal |-> Given(4, 2, 1, 1),
     hazards |-> << Given(0, 2, 1, 1) >>]

\* no tile at all, and the spawn point below the grid, 12 pixels above the
\* line past which the player has fallen out
PitLevelJSON ==
    [width |-> 3, height |-> 2, par_time |-> 0,
     tiles |-> << >>,
     spawn |-> Given(1, 7, 0, 0),
     goal |-> Absent,
     hazards |-> << >>]

\* a hazard that contains the player's rectangle at the spawn point, and the
\* goal on the tile of the spawn point
TrapLevelJSON ==
    [width |-> 6, height |-> 4, par_time |-> 0,
     tiles |-> << <<0, 0, 0, 0, 0, 0>>, <<0, 0, 0, 0, 0, 0>>,
                  <<0, 0, 0, 0, 0, 0>>, <<1, 1, 1, 1, 1, 1>> >>,
     spawn |-> Given(2, 2, 0, 0),
     goal |-> Given(2, 2, 1, 1),
     hazards |-> << Given(1, 1, 3, 2) >>]

\* a one-tile-thick floor that ends in a ledge, a one-way platform tile next
\* to the ledge, a wall tile one gap further and nothing below
LedgeLevelJSON ==
    [width |-> 6, height |-> 6, par_time |-> 0,
     tiles |-> << <<0, 0, 0, 0, 0, 0>>, <<0, 0, 0, 0, 0, 0>>,
                  <<0, 0, 0, 0, 0, 0>>, <<0, 0, 0, 0, 1, 0>>,
                  <<1, 1, 1, 2, 0, 0>>, <<0, 0, 0, 0, 0, 0>> >>,
     spawn |-> Given(1, 3, 0, 0),
     goal |-> Absent,
     hazards |-> << >>]

LevelJSON(n) ==
    IF n = 1 THEN FloorLevelJSON
    ELSE IF n = 2 THEN PitLevelJSON
    ELSE IF n = 3 THEN TrapLevelJSON
    ELSE LedgeLevelJSON

\* what std.loadFile and loadLevel can make of level<n>.json: the level, or
\* nothing because the file is missing or empty ("missing"), or a string that
\* JSON.parse rejects ("bad")
LoadOutcomes(n) ==
    IF n >= 1 /\ n <= NumLevelFiles THEN {"ok", "bad", "missing"}
    ELSE {"missing"}

\* the Level objects a reference can denote
LevelTable ==
    [r \in 0..(NumLevelFiles + 1) |->
        IF r = DEFAULT_LEVEL THEN createDefaultLevel ELSE loadLevel(LevelJSON(r))]

Lvl(ref) == LevelTable[ref]

----------------------------------------------------------------------------
(* player.js *)

PLAYER_WIDTH == 16 * PX
PLAYER_HEIGHT == 16 * PX

MOVE_SPEED == 280 * VU
GRAVITY == 1200 * VU
\* FAST_FALL_MULT = 1.5, JUMP_CUT_MULT = 0.4, AIR_CONTROL = 0.9 and the wall
\* gravity factor 0.3 as fractions
FAST_FALL_NUM == 3
FAST_FALL_DEN == 2
JUMP_FORCE == 420 * VU
JUMP_CUT_NUM == 4
JUMP_CUT_DEN == 10
MAX_FALL_SPEED == 600 * VU
WALL_SLIDE_SPEED == 80 * VU
WALL_JUMP_FORCE_X == 320 * VU
WALL_JUMP_FORCE_Y == 380 * VU
WALL_JUMP_COOLDOWN == (15 * TPS) \div 100
AIR_CONTROL_NUM == 9
AIR_CONTROL_DEN == 10
WALL_GRAVITY_NUM == 3
WALL_GRAVITY_DEN == 10
COYOTE_TIME == (8 * TPS) \div 100
JUMP_BUFFER_TIME == (10 * TPS) \div 100

\* input.moveX is kept in 1/128: the d-pad gives -128 or 128, the stick lx - 128
MOVE_ONE == 128
\* squashStretch is kept in 1/1000
SSU == 1000
\* the facing deadzone: |vx| > 10
FACING_DEADZONE == 10 * VU

\* Player.reset
PlayerReset ==
    [x |-> 0, y |-> 0, width |-> PLAYER_WIDTH, height |-> PLAYER_HEIGHT,
     vx |-> 0, vy |-> 0,
     grounded |-> FALSE, wallSliding |-> FALSE, wallDirection |-> 0,
     facingRight |-> TRUE,
     jumpHeld |-> FALSE, canVariableJump |-> FALSE,
     coyoteTimer |-> 0, jumpBufferTimer |-> 0, wallJumpCooldown |-> 0,
     runTimer |-> 0, squashStretch |-> SSU]

\* Player.lerp with t = tn / td, clamped to [0, 1]
Lerp(a, b, tn, td) ==
    LET n == IF tn < 0 THEN 0 ELSE IF tn > td THEN td ELSE tn
    IN a + MulDiv(b - a, n, td)

\* the larger of a and b
Max(a, b) == IF a > b THEN a ELSE b

\* updateTimers flooring the timers at zero
updateTimersMutFloor(p, d) ==
    [p EXCEPT
        !.coyoteTimer = IF @ > 0 THEN Max(@ - d, 0) ELSE @,
        !.jumpBufferTimer = IF @ > 0 THEN Max(@ - d, 0) ELSE @,
        !.wallJumpCooldown = IF @ > 0 THEN Max(@ - d, 0) ELSE @]

\* Player.updateTimers
updateTimers(p, d) ==
    [p EXCEPT
        !.coyoteTimer = IF @ > 0 THEN @ - d ELSE @,
        !.jumpBufferTimer = IF @ > 0 THEN @ - d ELSE @,
        !.wallJumpCooldown = IF @ > 0 THEN @ - d ELSE @]

\* handleHorizontalMovement with air drag: in the air with zero input vx
\* approaches zero
handleHorizontalMovementMutDrag(p, in) ==
    LET targetVx == MulDiv(in.moveX, MOVE_SPEED, MOVE_ONE)
    IN IF p.grounded THEN [p EXCEPT !.vx = targetVx]
       ELSE IF ~p.wallSliding
       THEN [p EXCEPT !.vx = Lerp(p.vx, targetVx, AIR_CONTROL_NUM, AIR_CONTROL_DEN)]
       ELSE p

\* Player.handleHorizontalMovement
handleHorizontalMovement(p, in) ==
    LET targetVx == MulDiv(in.moveX, MOVE_SPEED, MOVE_ONE)
    IN IF p.grounded THEN [p EXCEPT !.vx = targetVx]
       ELSE IF ~p.wallSliding /\ in.moveX # 0
       THEN [p EXCEPT !.vx = Lerp(p.vx, targetVx, AIR_CONTROL_NUM, AIR_CONTROL_DEN)]
       ELSE p

\* Player.checkWallCollision
checkWallCollision(p, lv, direction) ==
    LET checkX == p.x + direction * (p.width \div 2 + 2 * PX)
        checkY == p.y
    IN isSolidTile(lv, FloorDiv(checkX, TILE_SIZE), FloorDiv(checkY, TILE_SIZE))

\* handleWallDetection without the cooldown guard
handleWallDetectionMutNoCooldown(p, in, lv) ==
    LET p0 == [p EXCEPT !.wallSliding = FALSE, !.wallDirection = 0]
    IN IF p0.grounded THEN p0
       ELSE IF p0.vy < 0 THEN p0
       ELSE IF checkWallCollision(p0, lv, -1) /\ 10 * in.moveX < -MOVE_ONE
       THEN [p0 EXCEPT !.wallSliding = TRUE, !.wallDirection = -1]
       ELSE IF checkWallCollision(p0, lv, 1) /\ 10 * in.moveX > MOVE_ONE
       THEN [p0 EXCEPT !.wallSliding = TRUE, !.wallDirection = 1]
       ELSE p0

\* handleWallDetection engaging while the player still rises
handleWallDetectionMutRising(p, in, lv) ==
    LET p0 == [p EXCEPT !.wallSliding = FALSE, !.wallDirection = 0]
    IN IF p0.wallJumpCooldown > 0 THEN p0
       ELSE IF p0.grounded THEN p0
       ELSE IF checkWallCollision(p0, lv, -1) /\ 10 * in.moveX < -MOVE_ONE
       THEN [p0 EXCEPT !.wallSliding = TRUE, !.wallDirection = -1]
       ELSE IF checkWallCollision(p0, lv, 1) /\ 10 * in.moveX > MOVE_ONE
       THEN [p0 EXCEPT !.wallSliding = TRUE, !.wallDirection = 1]
       ELSE p0

\* Player.handleWallDetection; moveX < -0.1 is 10 * moveX < -MOVE_ONE
handleWallDetection(p, in, lv) ==
    LET p0 == [p EXCEPT !.wallSliding = FALSE, !.wallDirection = 0]
    IN IF p0.wallJumpCooldown > 0 THEN p0
       ELSE IF p0.grounded THEN p0
       ELSE IF p0.vy < 0 THEN p0
       ELSE IF checkWallCollision(p0, lv, -1) /\ 10 * in.moveX < -MOVE_ONE
       THEN [p0 EXCEPT !.wallSliding = TRUE, !.wallDirection = -1]
       ELSE IF checkWallCollision(p0, lv, 1) /\ 10 * in.moveX > MOVE_ONE
       THEN [p0 EXCEPT !.wallSliding = TRUE, !.wallDirection = 1]
       ELSE p0

\* Player.groundJump
groundJump(p) ==
    [p EXCEPT !.vy = -JUMP_FORCE, !.grounded = FALSE, !.coyoteTimer = 0,
              !.canVariableJump = TRUE, !.squashStretch = (7 * SSU) \div 10]

\* Player.wallJump
wallJump(p) ==
    [p EXCEPT !.vx = -p.wallDirection * WALL_JUMP_FORCE_X,
              !.vy = -WALL_JUMP_FORCE_Y,
              !.wallSliding = FALSE,
              !.wallJumpCooldown = WALL_JUMP_COOLDOWN,
              !.canVariableJump = TRUE,
              !.facingRight = (p.wallDirection < 0),
              !.squashStretch = (7 * SSU) \div 10]

\* handleJumping without the coyote time
handleJumpingMutNoCoyote(p, in) ==
    LET p1 == IF in.jumpPressed
              THEN [p EXCEPT !.jumpBufferTimer = JUMP_BUFFER_TIME] ELSE p
        p2 == [p1 EXCEPT !.jumpHeld = in.jumpHeld]
        canGroundJump == p2.grounded
        canWallJump == p2.wallSliding
        wantToJump == p2.jumpBufferTimer > 0
        p3 == IF wantToJump /\ canWallJump
              THEN [wallJump(p2) EXCEPT !.jumpBufferTimer = 0]
              ELSE IF wantToJump /\ canGroundJump
              THEN [groundJump(p2) EXCEPT !.jumpBufferTimer = 0]
              ELSE p2
    IN IF ~p3.jumpHeld /\ p3.canVariableJump /\ p3.vy < 0
       THEN [p3 EXCEPT !.vy = MulDiv(p3.vy, JUMP_CUT_NUM, JUMP_CUT_DEN),
                       !.canVariableJump = FALSE]
       ELSE p3

\* handleJumping cutting the jump without disarming canVariableJump
handleJumpingMutCutAgain(p, in) ==
    LET p1 == IF in.jumpPressed
              THEN [p EXCEPT !.jumpBufferTimer = JUMP_BUFFER_TIME] ELSE p
        p2 == [p1 EXCEPT !.jumpHeld = in.jumpHeld]
        canGroundJump == p2.grounded \/ p2.coyoteTimer > 0
        canWallJump == p2.wallSliding
        wantToJump == p2.jumpBufferTimer > 0
        p3 == IF wantToJump /\ canWallJump
              THEN [wallJump(p2) EXCEPT !.jumpBufferTimer = 0]
              ELSE IF wantToJump /\ canGroundJump
              THEN [groundJump(p2) EXCEPT !.jumpBufferTimer = 0]
              ELSE p2
    IN IF ~p3.jumpHeld /\ p3.canVariableJump /\ p3.vy < 0
       THEN [p3 EXCEPT !.vy = MulDiv(p3.vy, JUMP_CUT_NUM, JUMP_CUT_DEN)]
       ELSE p3

\* handleJumping launching without consuming the buffer
handleJumpingMutKeepBuffer(p, in) ==
    LET p1 == IF in.jumpPressed
              THEN [p EXCEPT !.jumpBufferTimer = JUMP_BUFFER_TIME] ELSE p
        p2 == [p1 EXCEPT !.jumpHeld = in.jumpHeld]
        canGroundJump == p2.grounded \/ p2.coyoteTimer > 0
        canWallJump == p2.wallSliding
        wantToJump == p2.jumpBufferTimer > 0
        p3 == IF wantToJump /\ canWallJump THEN wallJump(p2)
              ELSE IF wantToJump /\ canGroundJump THEN groundJump(p2)
              ELSE p2
    IN IF ~p3.jumpHeld /\ p3.canVariableJump /\ p3.vy < 0
       THEN [p3 EXCEPT !.vy = MulDiv(p3.vy, JUMP_CUT_NUM, JUMP_CUT_DEN),
                       !.canVariableJump = FALSE]
       ELSE p3

\* handleJumping trying the ground jump before the wall jump
handleJumpingMutGroundFirst(p, in) ==
    LET p1 == IF in.jumpPressed
              THEN [p EXCEPT !.jumpBufferTimer = JUMP_BUFFER_TIME] ELSE p
        p2 == [p1 EXCEPT !.jumpHeld = in.jumpHeld]
        canGroundJump == p2.grounded \/ p2.coyoteTimer > 0
        canWallJump == p2.wallSliding
        wantToJump == p2.jumpBufferTimer > 0
        p3 == IF wantToJump /\ canGroundJump
              THEN [groundJump(p2) EXCEPT !.jumpBufferTimer = 0]
              ELSE IF wantToJump /\ canWallJump
              THEN [wallJump(p2) EXCEPT !.jumpBufferTimer = 0]
              ELSE p2
    IN IF ~p3.jumpHeld /\ p3.canVariableJump /\ p3.vy < 0
       THEN [p3 EXCEPT !.vy = MulDiv(p3.vy, JUMP_CUT_NUM, JUMP_CUT_DEN),
                       !.canVariableJump = FALSE]
       ELSE p3

\* Player.handleJumping
handleJumping(p, in) ==
    LET p1 == IF in.jumpPressed
              THEN [p EXCEPT !.jumpBufferTimer = JUMP_BUFFER_TIME] ELSE p
        p2 == [p1 EXCEPT !.jumpHeld = in.jumpHeld]
        canGroundJump == p2.grounded \/ p2.coyoteTimer > 0
        canWallJump == p2.wallSliding
        wantToJump == p2.jumpBufferTimer > 0
        p3 == IF wantToJump /\ canWallJump
              THEN [wallJump(p2) EXCEPT !.jumpBufferTimer = 0]
              ELSE IF wantToJump /\ canGroundJump
              THEN [groundJump(p2) EXCEPT !.jumpBufferTimer = 0]
              ELSE p2
    IN IF ~p3.jumpHeld /\ p3.canVariableJump /\ p3.vy < 0
       THEN [p3 EXCEPT !.vy = MulDiv(p3.vy, JUMP_CUT_NUM, JUMP_CUT_DEN),
                       !.canVariableJump = FALSE]
       ELSE p3

\* applyGravity without the terminal velocity
applyGravityMutNoClamp(p, d) ==
    [p EXCEPT !.vy =
        IF p.wallSliding
        THEN IF p.vy > WALL_SLIDE_SPEED THEN WALL_SLIDE_SPEED
             ELSE p.vy + MulDiv(GRAVITY * WALL_GRAVITY_NUM, d,
                                WALL_GRAVITY_DEN * TPS)
        ELSE IF p.vy > 0
        THEN p.vy + MulDiv(GRAVITY * FAST_FALL_NUM, d, FAST_FALL_DEN * TPS)
        ELSE p.vy + MulDiv(GRAVITY, d, TPS)]

\* Player.applyGravity; gravity * dt in velocity units is GRAVITY * d / TPS
applyGravity(p, d) ==
    LET vy1 ==
            IF p.wallSliding
            THEN IF p.vy > WALL_SLIDE_SPEED THEN WALL_SLIDE_SPEED
                 ELSE p.vy + MulDiv(GRAVITY * WALL_GRAVITY_NUM, d,
                                    WALL_GRAVITY_DEN * TPS)
            ELSE IF p.vy > 0
            THEN p.vy + MulDiv(GRAVITY * FAST_FALL_NUM, d, FAST_FALL_DEN * TPS)
            ELSE p.vy + MulDiv(GRAVITY, d, TPS)
    IN [p EXCEPT !.vy = IF vy1 > MAX_FALL_SPEED THEN MAX_FALL_SPEED ELSE vy1]

\* the loop body letting the last tile resolved decide grounded
resolveTileMutLast(p, lv, tx, ty, left, right, top, bottom) ==
    IF ~isSolidTile(lv, tx, ty) THEN p
    ELSE
        LET tileX == tx * TILE_SIZE
            tileY == ty * TILE_SIZE
            overlapLeft == right - tileX
            overlapRight == (tileX + TILE_SIZE) - left
            overlapTop == bottom - tileY
            overlapBottom == (tileY + TILE_SIZE) - top
            minOverlapX == IF overlapLeft < overlapRight
                           THEN -overlapLeft ELSE overlapRight
            minOverlapY == IF overlapTop < overlapBottom
                           THEN -overlapTop ELSE overlapBottom
        IN IF Abs(minOverlapX) < Abs(minOverlapY)
           THEN [p EXCEPT !.x = @ + minOverlapX, !.vx = 0,
                          !.grounded = FALSE]
           ELSE IF minOverlapY < 0
           THEN [p EXCEPT !.y = @ + minOverlapY, !.grounded = TRUE,
                          !.coyoteTimer = COYOTE_TIME, !.vy = 0]
           ELSE [p EXCEPT !.y = @ + minOverlapY, !.vy = 0,
                          !.grounded = FALSE]

\* the body of the tile loop of resolveCollisions for tile (tx, ty); the
\* bounds left, right, top, bottom are those taken before the loop
resolveTile(p, lv, tx, ty, left, right, top, bottom) ==
    IF ~isSolidTile(lv, tx, ty) THEN p
    ELSE
        LET tileX == tx * TILE_SIZE
            tileY == ty * TILE_SIZE
            overlapLeft == right - tileX
            overlapRight == (tileX + TILE_SIZE) - left
            overlapTop == bottom - tileY
            overlapBottom == (tileY + TILE_SIZE) - top
            minOverlapX == IF overlapLeft < overlapRight
                           THEN -overlapLeft ELSE overlapRight
            minOverlapY == IF overlapTop < overlapBottom
                           THEN -overlapTop ELSE overlapBottom
        IN IF Abs(minOverlapX) < Abs(minOverlapY)
           THEN [p EXCEPT !.x = @ + minOverlapX, !.vx = 0]
           ELSE IF minOverlapY < 0
           THEN [p EXCEPT !.y = @ + minOverlapY, !.grounded = TRUE,
                          !.coyoteTimer = COYOTE_TIME, !.vy = 0]
           ELSE [p EXCEPT !.y = @ + minOverlapY, !.vy = 0]

\* Player.resolveCollisions: rows top to bottom, in a row left to right
RECURSIVE resolveFrom(_, _, _, _, _, _, _, _, _, _)
resolveFrom(p, lv, k, n, cols, tileLeft, tileTop, left, right, tb) ==
    IF k >= n THEN p
    ELSE resolveFrom(
            resolveTile(p, lv, tileLeft + (k % cols), tileTop + (k \div cols),
                        left, right, tb[1], tb[2]),
            lv, k + 1, n, cols, tileLeft, tileTop, left, right, tb)

resolveCollisions(p, lv) ==
    LET left == p.x - p.width \div 2
        right == p.x + p.width \div 2
        top == p.y - p.height \div 2
        bottom == p.y + p.height \div 2
        tileLeft == FloorDiv(left, TILE_SIZE)
        tileRight == FloorDiv(right, TILE_SIZE)
        tileTop == FloorDiv(top, TILE_SIZE)
        tileBottom == FloorDiv(bottom, TILE_SIZE)
        cols == tileRight - tileLeft + 1
        rows == tileBottom - tileTop + 1
    IN resolveFrom([p EXCEPT !.grounded = FALSE], lv, 0, rows * cols, cols,
                   tileLeft, tileTop, left, right, <<top, bottom>>)

\* Player.onLand
onLand(p) ==
    [p EXCEPT !.squashStretch = (13 * SSU) \div 10, !.coyoteTimer = COYOTE_TIME]

\* Player.updateAnimation; runTimer is kept in 1/(100 * PX) second
updateAnimation(p, d) ==
    [p EXCEPT
        !.runTimer = IF p.grounded /\ Abs(p.vx) > FACING_DEADZONE
                     THEN @ + d * Abs(p.vx) ELSE @,
        !.squashStretch = Lerp(@, SSU, 10 * d, TPS)]

\* Player.update
PlayerUpdate(p, in, lv, d) ==
    LET wasGrounded == p.grounded
        p1 == updateTimers(p, d)
        p2 == handleHorizontalMovement(p1, in)
        p3 == handleWallDetection(p2, in, lv)
        p4 == handleJumping(p3, in)
        p5 == applyGravity(p4, d)
        p6 == [p5 EXCEPT !.x = @ + p5.vx * d, !.y = @ + p5.vy * d]
        p7 == resolveCollisions(p6, lv)
        p8 == IF p7.grounded /\ ~wasGrounded THEN onLand(p7) ELSE p7
        p9 == IF p8.vx > FACING_DEADZONE THEN [p8 EXCEPT !.facingRight = TRUE]
              ELSE IF p8.vx < -FACING_DEADZONE THEN [p8 EXCEPT !.facingRight = FALSE]
              ELSE p8
    IN updateAnimation(p9, d)

----------------------------------------------------------------------------
(* game.js *)

MENU == 0
PLAYING == 1
PAUSED == 2
DEAD == 3
LEVEL_COMPLETE == 4

DEATH_RESPAWN_TIME == TPS \div 2
PARTICLE_COUNT == 20
\* Camera.FOLLOW_SPEED, Camera.LOOK_AHEAD; killPlayer's shake
FOLLOW_SPEED == 8
LOOK_AHEAD == 50 * PX
SHAKE_AMOUNT == 5 * PX
SHAKE_TIME == (3 * TPS) \div 10
\* checkHazardCollision's margin below the level
FALL_MARGIN == 100 * PX

\* new Camera()
NewCamera ==
    [x |-> 0, y |-> 0, targetX |-> 0, targetY |-> 0,
     shakeAmount |-> 0, shakeTimer |-> 0]

\* Math.random() * 2 - 1 lies in [-1, 1); the values the model draws
ShakeDraws == {-1, 0}

\* Camera.update; rx and ry are the two draws of the shake
CameraUpdate(cam, p, d, rx, ry) ==
    LET lookAhead == IF p.facingRight THEN LOOK_AHEAD ELSE -LOOK_AHEAD
        tx == p.x + lookAhead
        ty == p.y
        x1 == cam.x + MulDiv(tx - cam.x, FOLLOW_SPEED * d, TPS)
        y1 == cam.y + MulDiv(ty - cam.y, FOLLOW_SPEED * d, TPS)
    IN IF cam.shakeTimer > 0
       THEN [cam EXCEPT !.targetX = tx, !.targetY = ty,
                        !.shakeTimer = @ - d,
                        !.x = x1 + rx * cam.shakeAmount,
                        !.y = y1 + ry * cam.shakeAmount,
                        !.shakeAmount = MulDiv(@, 9, 10)]
       ELSE [cam EXCEPT !.targetX = tx, !.targetY = ty, !.x = x1, !.y = y1]

\* 0.3 + Math.random() * 0.5 seconds lies in [0.3, 0.8); the values the
\* model draws
ParticleLives == <<(3 * TPS) \div 10, (7 * TPS) \div 10>>

\* new Particle(x, y) with lifetime life
NewParticle(life) == [life |-> life, maxLife |-> life, a |-> 255]

\* the PARTICLE_COUNT particles of one spawnDeathParticles call: the model
\* draws the shorter life for the first k and the longer for the others
Burst(k) ==
    [i \in 1..PARTICLE_COUNT |->
        NewParticle(IF i <= k THEN ParticleLives[1] ELSE ParticleLives[2])]

Bursts == {Burst(k) : k \in {0, PARTICLE_COUNT \div 2}}

\* Particle.update: the particle after the call; it is dead when life <= 0
ParticleUpdate(pt, d) ==
    LET life == pt.life - d
    IN IF life <= 0 THEN [pt EXCEPT !.life = life]
       ELSE [pt EXCEPT !.life = life, !.a = (life * 255) \div pt.maxLife]

\* what Particle.update returns: the particle is kept while this holds
Alive(pt) == pt.life > 0

\* a particle whose life has just reached zero counted among the living
AliveMutZero(pt) == pt.life >= 0

\* updateParticles keeping the particles whose life has just reached zero
updateParticlesMutZero(ps, d) ==
    SelectSeq([i \in 1..Len(ps) |-> ParticleUpdate(ps[i], d)], AliveMutZero)

\* Game.updateParticles: every particle is updated, the dead ones filtered out
updateParticles(ps, d) ==
    SelectSeq([i \in 1..Len(ps) |-> ParticleUpdate(ps[i], d)], Alive)

\* Game.getPlayerRect
getPlayerRect(p) ==
    Rect(p.x - p.width \div 2, p.y - p.height \div 2, p.width, p.height)

\* rectsOverlap counting rectangles that touch
rectsOverlapMutTouch(a, b) ==
    /\ a.x <= b.x + b.width
    /\ a.x + a.width >= b.x
    /\ a.y <= b.y + b.height
    /\ a.y + a.height >= b.y

\* Game.rectsOverlap
rectsOverlap(a, b) ==
    /\ a.x < b.x + b.width
    /\ a.x + a.width > b.x
    /\ a.y < b.y + b.height
    /\ a.y + a.height > b.y

\* Game.checkHazardCollision
checkHazardCollision(p, lv) ==
    \/ \E i \in 1..Len(lv.hazards) : rectsOverlap(getPlayerRect(p), lv.hazards[i])
    \/ p.y > lv.height * TILE_SIZE + FALL_MARGIN

\* Game.checkGoalCollision
checkGoalCollision(p, lv) == rectsOverlap(getPlayerRect(p), lv.goalRect)

\* Game.spawnPlayer: the player it leaves
SpawnedPlayer(lv) ==
    [PlayerReset EXCEPT !.x = lv.spawnX, !.y = lv.spawnY,
                        !.width = PLAYER_WIDTH, !.height = PLAYER_HEIGHT,
                        !.facingRight = TRUE]

\* Game.spawnPlayer: the camera it leaves
SpawnedCamera(cam, lv) ==
    [cam EXCEPT !.x = lv.spawnX, !.y = lv.spawnY,
                !.targetX = lv.spawnX, !.targetY = lv.spawnY]

\* Game.spawnPlayer on the level referred to by ref
spawnPlayer(ref) ==
    /\ player' = SpawnedPlayer(Lvl(ref))
    /\ camera' = SpawnedCamera(camera, Lvl(ref))

\* Game.updateMenu; burst is what the handler pushes onto this.particles
updateMenu(in, burst) ==
    /\ burst = <<>>
    /\ IF in.jumpPressed \/ in.startPressed
       THEN /\ state' = PLAYING
            /\ spawnPlayer(level)
       ELSE UNCHANGED <<state, player, camera>>
    /\ loaded' = <<>>
    /\ UNCHANGED <<level, currentLevelIndex, levelTime, totalTime,
                   deathCount, deathTimer>>

\* killPlayer forgetting to arm the respawn timer
killPlayerNoTimer(p, burst) ==
    /\ deathCount < MaxDeaths
    /\ burst \in Bursts
    /\ state' = DEAD
    /\ deathCount' = deathCount + 1
    /\ player' = p
    /\ camera' = [camera EXCEPT !.shakeAmount = SHAKE_AMOUNT,
                                !.shakeTimer = SHAKE_TIME]
    /\ UNCHANGED <<level, currentLevelIndex, levelTime, totalTime, deathTimer>>

\* killPlayer not counting the death
killPlayerMutNoCount(p, burst) ==
    /\ deathCount < MaxDeaths
    /\ burst \in Bursts
    /\ state' = DEAD
    /\ deathTimer' = DEATH_RESPAWN_TIME
    /\ player' = p
    /\ camera' = [camera EXCEPT !.shakeAmount = SHAKE_AMOUNT,
                                !.shakeTimer = SHAKE_TIME]
    /\ UNCHANGED <<level, currentLevelIndex, levelTime, totalTime, deathCount>>

\* Game.killPlayer, after the player update left p
killPlayer(p, burst) ==
    /\ deathCount < MaxDeaths
    /\ burst \in Bursts
    /\ state' = DEAD
    /\ deathCount' = deathCount + 1
    /\ deathTimer' = DEATH_RESPAWN_TIME
    /\ player' = p
    /\ camera' = [camera EXCEPT !.shakeAmount = SHAKE_AMOUNT,
                                !.shakeTimer = SHAKE_TIME]
    /\ UNCHANGED <<level, currentLevelIndex, levelTime, totalTime>>

\* completeLevel reached after the level timer was advanced
completeLevelTimed(p, burst) ==
    /\ burst = <<>>
    /\ state' = LEVEL_COMPLETE
    /\ player' = p
    /\ levelTime' = levelTime + DT_CAP
    /\ UNCHANGED <<level, currentLevelIndex, totalTime,
                   deathCount, deathTimer, camera>>

\* Game.completeLevel, after the player update left p
completeLevel(p, burst) ==
    /\ burst = <<>>
    /\ state' = LEVEL_COMPLETE
    /\ player' = p
    /\ UNCHANGED <<level, currentLevelIndex, levelTime, totalTime,
                   deathCount, deathTimer, camera>>

\* updatePlaying looking at the pause button only after the player update
updatePlayingPauseLate(in, d, burst) ==
    /\ loaded' = <<>>
    /\ LET p == PlayerUpdate(player, in, Lvl(level), d)
       IN IF in.pausePressed
          THEN /\ burst = <<>>
               /\ state' = PAUSED
               /\ player' = p
               /\ UNCHANGED <<level, currentLevelIndex, levelTime, totalTime,
                              deathCount, deathTimer, camera>>
          ELSE IF checkHazardCollision(p, Lvl(level)) THEN killPlayer(p, burst)
          ELSE IF checkGoalCollision(p, Lvl(level)) THEN completeLevel(p, burst)
          ELSE /\ burst = <<>>
               /\ player' = p
               /\ \E rx \in (IF camera.shakeTimer > 0 THEN ShakeDraws ELSE {0}),
                     ry \in (IF camera.shakeTimer > 0 THEN ShakeDraws ELSE {0}) :
                      camera' = CameraUpdate(camera, p, d, rx, ry)
               /\ levelTime' = levelTime + d
               /\ totalTime' = totalTime + d
               /\ UNCHANGED <<state, level, currentLevelIndex, deathCount,
                              deathTimer>>

\* updatePlaying deciding the goal before the hazards
updatePlayingGoalFirst(in, d, burst) ==
    /\ loaded' = <<>>
    /\ IF in.pausePressed
       THEN /\ burst = <<>>
            /\ state' = PAUSED
            /\ UNCHANGED <<player, level, currentLevelIndex, levelTime, totalTime,
                           deathCount, deathTimer, camera>>
       ELSE LET p == PlayerUpdate(player, in, Lvl(level), d)
            IN IF checkGoalCollision(p, Lvl(level)) THEN completeLevel(p, burst)
               ELSE IF checkHazardCollision(p, Lvl(level)) THEN killPlayer(p, burst)
               ELSE /\ burst = <<>>
                    /\ player' = p
                    /\ \E rx \in (IF camera.shakeTimer > 0 THEN ShakeDraws ELSE {0}),
                          ry \in (IF camera.shakeTimer > 0 THEN ShakeDraws ELSE {0}) :
                           camera' = CameraUpdate(camera, p, d, rx, ry)
                    /\ levelTime' = levelTime + d
                    /\ totalTime' = totalTime + d
                    /\ UNCHANGED <<state, level, currentLevelIndex, deathCount,
                                   deathTimer>>

\* Game.updatePlaying
updatePlaying(in, d, burst) ==
    /\ loaded' = <<>>
    /\ IF in.pausePressed
       THEN /\ burst = <<>>
            /\ state' = PAUSED
            /\ UNCHANGED <<player, level, currentLevelIndex, levelTime, totalTime,
                           deathCount, deathTimer, camera>>
       ELSE LET p == PlayerUpdate(player, in, Lvl(level), d)
            IN IF checkHazardCollision(p, Lvl(level)) THEN killPlayer(p, burst)
               ELSE IF checkGoalCollision(p, Lvl(level)) THEN completeLevel(p, burst)
               ELSE /\ burst = <<>>
                    /\ player' = p
                    /\ \E rx \in (IF camera.shakeTimer > 0 THEN ShakeDraws ELSE {0}),
                          ry \in (IF camera.shakeTimer > 0 THEN ShakeDraws ELSE {0}) :
                           camera' = CameraUpdate(camera, p, d, rx, ry)
                    /\ levelTime' = levelTime + d
                    /\ totalTime' = totalTime + d
                    /\ UNCHANGED <<state, level, currentLevelIndex, deathCount,
                                   deathTimer>>

\* updateDead sending the session back to the menu after the respawn
updateDeadToMenu(d, burst) ==
    /\ burst = <<>>
    /\ loaded' = <<>>
    /\ deathTimer' = deathTimer - d
    /\ IF deathTimer - d <= 0
       THEN /\ spawnPlayer(level)
            /\ state' = MENU
       ELSE UNCHANGED <<state, player, camera>>
    /\ UNCHANGED <<level, currentLevelIndex, levelTime, totalTime, deathCount>>

\* updateDead respawning only once the timer is below zero
updateDeadLate(d, burst) ==
    /\ burst = <<>>
    /\ loaded' = <<>>
    /\ deathTimer' = deathTimer - d
    /\ IF deathTimer - d < 0
       THEN /\ spawnPlayer(level)
            /\ state' = PLAYING
       ELSE UNCHANGED <<state, player, camera>>
    /\ UNCHANGED <<level, currentLevelIndex, levelTime, totalTime, deathCount>>

\* updateDead that never counts the timer down
updateDeadStuck(d, burst) ==
    /\ burst = <<>>
    /\ loaded' = <<>>
    /\ deathTimer' = deathTimer
    /\ IF deathTimer <= 0
       THEN /\ spawnPlayer(level)
            /\ state' = PLAYING
       ELSE UNCHANGED <<state, player, camera>>
    /\ UNCHANGED <<level, currentLevelIndex, levelTime, totalTime, deathCount>>

\* updateDead letting gravity act on the corpse
updateDeadFalling(d, burst) ==
    /\ burst = <<>>
    /\ loaded' = <<>>
    /\ deathTimer' = deathTimer - d
    /\ IF deathTimer - d <= 0
       THEN /\ spawnPlayer(level)
            /\ state' = PLAYING
       ELSE /\ player' = applyGravity(player, d)
            /\ UNCHANGED <<state, camera>>
    /\ UNCHANGED <<level, currentLevelIndex, levelTime, totalTime, deathCount>>

\* Game.updateDead (with respawnPlayer)
updateDead(d, burst) ==
    /\ burst = <<>>
    /\ loaded' = <<>>
    /\ deathTimer' = deathTimer - d
    /\ IF deathTimer - d <= 0
       THEN /\ spawnPlayer(level)
            /\ state' = PLAYING
       ELSE UNCHANGED <<state, player, camera>>
    /\ UNCHANGED <<level, currentLevelIndex, levelTime, totalTime, deathCount>>

\* updateLevelComplete staying in LevelComplete when no level could be loaded
updateLevelCompleteStay(in, burst) ==
    /\ burst = <<>>
    /\ IF in.jumpPressed \/ in.startPressed
       THEN /\ \E next \in LoadOutcomes(currentLevelIndex + 2) :
                IF next # "missing"
                THEN /\ loaded' = <<next>>
                     /\ currentLevelIndex' = currentLevelIndex + 1
                     /\ level' = IF next = "ok"
                                 THEN currentLevelIndex + 2 ELSE level
                ELSE \E first \in LoadOutcomes(1) :
                     /\ loaded' = <<next, first>>
                     /\ currentLevelIndex' = 0
                     /\ level' = IF first = "ok" THEN 1 ELSE level
            /\ spawnPlayer(level')
            /\ levelTime' = 0
            /\ state' = IF loaded'[Len(loaded')] = "ok"
                        THEN PLAYING ELSE LEVEL_COMPLETE
            /\ UNCHANGED <<totalTime, deathCount, deathTimer>>
       ELSE /\ loaded' = <<>>
            /\ UNCHANGED <<state, player, level, currentLevelIndex, levelTime,
                           totalTime, deathCount, deathTimer, camera>>

\* Game.updateLevelComplete; next and first are what the loader makes of the
\* next level file and of level1.json
updateLevelComplete(in, burst) ==
    /\ burst = <<>>
    /\ IF in.jumpPressed \/ in.startPressed
       THEN /\ \E next \in LoadOutcomes(currentLevelIndex + 2) :
                IF next # "missing"
                THEN /\ loaded' = <<next>>
                     /\ currentLevelIndex' = currentLevelIndex + 1
                     /\ level' = IF next = "ok"
                                 THEN currentLevelIndex + 2 ELSE level
                ELSE \E first \in LoadOutcomes(1) :
                     /\ loaded' = <<next, first>>
                     /\ currentLevelIndex' = 0
                     /\ level' = IF first = "ok" THEN 1 ELSE level
            /\ spawnPlayer(level')
            /\ levelTime' = 0
            /\ state' = PLAYING
            /\ UNCHANGED <<totalTime, deathCount, deathTimer>>
       ELSE /\ loaded' = <<>>
            /\ UNCHANGED <<state, player, level, currentLevelIndex, levelTime,
                           totalTime, deathCount, deathTimer, camera>>

\* Game.update(in, d), the PAUSED case inline as in the source
GameUpdate(in, d) ==
    \E burst \in Bursts \cup {<<>>} :
        /\ CASE state = MENU -> updateMenu(in, burst)
             [] state = PLAYING -> updatePlaying(in, d, burst)
             [] state = DEAD -> updateDead(d, burst)
             [] state = LEVEL_COMPLETE -> updateLevelComplete(in, burst)
             [] state = PAUSED ->
                    /\ burst = <<>>
                    /\ loaded' = <<>>
                    /\ state' = IF in.pausePressed THEN PLAYING ELSE state
                    /\ UNCHANGED <<player, level, currentLevelIndex, levelTime,
                                   totalTime, deathCount, deathTimer, camera>>
        /\ \E ps \in {particles \o burst} : particles' = updateParticles(ps, d)

----------------------------------------------------------------------------
(* input.js *)

DEAD_ZONE == 30
STICK_CENTER == 128

Buttons == {"LEFT", "RIGHT", "UP", "DOWN", "CROSS", "R1", "R2", "START", "SELECT"}

\* the pad with nothing pressed and the stick at rest
PadIdle == [buttons |-> {}, lx |-> STICK_CENTER, ly |-> STICK_CENTER]

\* new Input()
NewInput ==
    [moveX |-> 0, moveY |-> 0,
     jumpPressed |-> FALSE, jumpHeld |-> FALSE,
     pausePressed |-> FALSE, startPressed |-> FALSE,
     prevJumpHeld |-> FALSE, prevStartHeld |-> FALSE, prevPauseHeld |-> FALSE]

\* pad.pressed(button)
Pressed(pd, b) == b \in pd.buttons

\* Input.update with the pad reading pd: the Input object it leaves
InputUpdate(in, pd) ==
    LET prevJumpHeld == in.jumpHeld
        prevStartHeld == in.startPressed
        prevPauseHeld == in.pausePressed
        dx == IF Pressed(pd, "LEFT") THEN -MOVE_ONE
              ELSE IF Pressed(pd, "RIGHT") THEN MOVE_ONE ELSE 0
        dy == IF Pressed(pd, "UP") THEN -MOVE_ONE
              ELSE IF Pressed(pd, "DOWN") THEN MOVE_ONE ELSE 0
        lx == pd.lx - STICK_CENTER
        ly == pd.ly - STICK_CENTER
        jumpHeld == Pressed(pd, "CROSS") \/ Pressed(pd, "R1") \/ Pressed(pd, "R2")
        startHeld == Pressed(pd, "START")
        selectHeld == Pressed(pd, "SELECT")
        startEdge == startHeld /\ ~prevStartHeld
    IN [moveX |-> IF dx = 0 /\ Abs(lx) > DEAD_ZONE THEN lx ELSE dx,
        moveY |-> IF dy = 0 /\ Abs(ly) > DEAD_ZONE THEN ly ELSE dy,
        jumpPressed |-> jumpHeld /\ ~prevJumpHeld,
        jumpHeld |-> jumpHeld,
        pausePressed |-> startEdge \/ (selectHeld /\ ~prevPauseHeld),
        startPressed |-> startEdge,
        prevJumpHeld |-> prevJumpHeld,
        prevStartHeld |-> prevStartHeld,
        prevPauseHeld |-> prevPauseHeld]

----------------------------------------------------------------------------
(* main.js and the specifications *)

\* no Player.update call made yet: frames counts the calls, airTime is the dt
\* accumulated since the last call that ended grounded (-1: none did),
\* launched tells a jump launched since then, pressAge is the dt accumulated
\* since the last airborne call with jumpPressed (-1: none, or a launch
\* followed it), crossed tells a call carried the player through a solid
\* tile, presses counts the calls with jumpPressed, launches the calls that
\* launched a jump, and wallJumpAge is the dt accumulated in the calls after
\* the last one that launched a wall jump (-1: none did)
NoHist == [frames |-> 0, airTime |-> -1, launched |-> FALSE, pressAge |-> -1,
           crossed |-> FALSE, presses |-> 0, launches |-> 0,
           wallJumpAge |-> -1, toggles |-> 0]

NoQuery == [lv |-> DEFAULT_LEVEL, x |-> 0, y |-> 0, done |-> FALSE,
            solid |-> FALSE, tile |-> EMPTY, levelTile |-> EMPTY,
            pushes |-> FALSE, wall |-> FALSE]

\* the state after new Input(), new Game() and before init()
Init ==
    /\ pc = "init"
    /\ pad = PadIdle
    /\ input = NewInput
    /\ dt = 0
    /\ state = MENU
    /\ player = PlayerReset
    /\ level = NULL
    /\ currentLevelIndex = 0
    /\ levelTime = 0
    /\ totalTime = 0
    /\ deathCount = 0
    /\ deathTimer = 0
    /\ camera = NewCamera
    /\ particles = <<>>
    /\ loaded = <<>>
    /\ q = NoQuery
    /\ hist = NoHist

\* init() going on to level2.json when level1.json does not parse
FirstLevelMutNext(outcome) ==
    IF outcome = "ok" THEN 1
    ELSE IF outcome = "missing" THEN DEFAULT_LEVEL
    ELSE 2

\* main.js init(): the level it sets, given what became of level1.json
FirstLevel(outcome) == IF outcome = "ok" THEN 1 ELSE DEFAULT_LEVEL

\* main.js init(): load level1.json or fall back to the default level, then
\* spawn the player
InitGame ==
    /\ pc = "init"
    /\ \E first \in LoadOutcomes(1) :
          /\ loaded' = <<first>>
          /\ level' = FirstLevel(first)
    /\ spawnPlayer(level')
    /\ pc' = "loop"
    /\ UNCHANGED <<pad, input, dt, state, currentLevelIndex, levelTime,
                   totalTime, deathCount, deathTimer, particles, q, hist>>

\* an Input object as Game.update reads it
In(moveX, jumpPressed, jumpHeld, pausePressed, startPressed) ==
    [NewInput EXCEPT !.moveX = moveX, !.jumpPressed = jumpPressed,
                     !.jumpHeld = jumpHeld, !.pausePressed = pausePressed,
                     !.startPressed = startPressed]

\* the inputs Game.update is called with: nothing, a direction, a jump press,
\* the jump button kept down, and the combinations of pause and start
AnyInputs ==
    {In(0, FALSE, FALSE, FALSE, FALSE),
     In(-MOVE_ONE, FALSE, FALSE, FALSE, FALSE),
     In(MOVE_ONE, FALSE, FALSE, FALSE, FALSE),
     In(0, TRUE, TRUE, FALSE, FALSE),
     In(0, FALSE, TRUE, FALSE, FALSE),
     In(0, FALSE, FALSE, TRUE, FALSE),
     In(0, FALSE, FALSE, FALSE, TRUE),
     In(0, FALSE, FALSE, TRUE, TRUE)}

\* the model stops calling update in Playing when the play time is used up
WithinBounds == state = PLAYING => totalTime <= MaxPlayFrames * DT_CAP

\* the frame times the model runs: any of DtSet, but in Playing the longest
FrameTimes == IF state = PLAYING THEN {DT_CAP} ELSE DtSet

\* one Game.update(input, dt) call
Update ==
    /\ pc = "loop"
    /\ WithinBounds
    /\ \E in \in AnyInputs, d \in FrameTimes :
          /\ input' = in
          /\ dt' = d
          /\ GameUpdate(in, d)
    /\ UNCHANGED <<pc, pad, q, hist>>

Next == InitGame \/ Update

Spec == Init /\ [][Next]_vars

\* the inputs of the short frames: nothing, left, right, START and SELECT
FineInputs ==
    {In(0, FALSE, FALSE, FALSE, FALSE),
     In(-MOVE_ONE, FALSE, FALSE, FALSE, FALSE),
     In(MOVE_ONE, FALSE, FALSE, FALSE, FALSE),
     In(0, FALSE, FALSE, FALSE, TRUE),
     In(0, FALSE, FALSE, TRUE, FALSE)}

\* one Game.update(input, dt) call of a frame of 0.05 s, in every state
UpdateFine ==
    /\ pc = "loop"
    /\ WithinBounds
    /\ \E in \in FineInputs :
          /\ input' = in
          /\ dt' = DT_HALF
          /\ GameUpdate(in, DT_HALF)
    /\ UNCHANGED <<pc, pad, q, hist>>

NextFine == InitGame \/ UpdateFine

\* the session run in frames of 0.05 s: a burst outlives the respawn
SpecFine == Init /\ [][NextFine]_vars

\* no further frame once a hold of START or SELECT counted this many changes
\* between Playing and Paused
MaxToggles == 2

\* the pad readings of the whole loop: nothing, START, SELECT and RIGHT
LoopPads ==
    {[PadIdle EXCEPT !.buttons = bs] :
        bs \in {{}, {"START"}, {"SELECT"}, {"RIGHT"}}}

\* START or SELECT is down in pad reading a and still down in the next, b
HeldOn(a, b) ==
    \/ Pressed(a, "START") /\ Pressed(b, "START")
    \/ Pressed(a, "SELECT") /\ Pressed(b, "SELECT")

\* the session changes between Playing and Paused from state a to state b
Toggled(a, b) == {a, b} = {PLAYING, PAUSED}

\* one mainLoop call: input.update() on the pad reading, then
\* game.update(input, dt); hist.toggles counts the changes between Playing
\* and Paused since START or SELECT went down
MainLoop ==
    /\ pc = "loop"
    /\ WithinBounds
    /\ hist.toggles < MaxToggles
    /\ \E pd \in LoopPads, d \in FrameTimes :
          /\ pad' = pd
          /\ \E in \in {InputUpdate(input, pd)} :
                /\ input' = in
                /\ GameUpdate(in, d)
          /\ dt' = d
          /\ hist' = [hist EXCEPT !.toggles =
                          (IF HeldOn(pad, pd) THEN @ ELSE 0)
                          + (IF Toggled(state, state') THEN 1 ELSE 0)]
    /\ UNCHANGED <<pc, q>>

NextLoop == InitGame \/ MainLoop

SpecLoop == Init /\ [][NextLoop]_vars

\* the updates main.js makes while the session is Dead
DeadUpdate == state = DEAD /\ Update

\* the scheduling of main.js: Screen.display calls mainLoop again and again,
\* so an update that stays possible is made. The Dead updates are the only
\* ones whose fairness the properties below rely on.
FairSpec == Spec /\ WF_vars(DeadUpdate)

----------------------------------------------------------------------------
(* Input.update on its own: main.js init(), then one poll per frame *)

\* at most this many buttons are down at once
MaxButtons == 2

\* the pad readings the model polls
PadStates ==
    {[buttons |-> b, lx |-> lx, ly |-> STICK_CENTER] :
        b \in {bs \in SUBSET Buttons : Cardinality(bs) <= MaxButtons},
        lx \in {STICK_CENTER, 255}}

\* input.update() of one mainLoop call; pd is what pad.update() reads
Poll ==
    /\ pc = "loop"
    /\ \E pd \in PadStates :
          /\ pad' = pd
          /\ input' = InputUpdate(input, pd)
    /\ UNCHANGED <<pc, dt, gameVars, loaded, q, hist>>

NextInput == InitGame \/ Poll

SpecInput == Init /\ [][NextInput]_vars

----------------------------------------------------------------------------
(* The level queries on their own: a query is drawn, then answered *)

\* queries reach this many tiles past each edge of the grid
QueryMargin == 2

Queries ==
    UNION {{[NoQuery EXCEPT !.lv = r, !.x = x, !.y = y] :
                x \in (-QueryMargin)..(Lvl(r).width - 1 + QueryMargin),
                y \in (-QueryMargin)..(Lvl(r).height - 1 + QueryMargin)} :
           r \in 0..(NumLevelFiles + 1)}

\* a player whose rectangle lies a quarter tile right of and below tile (x, y)
ProbeOn(x, y) ==
    [PlayerReset EXCEPT !.x = x * TILE_SIZE + (3 * TILE_SIZE) \div 4,
                        !.y = y * TILE_SIZE + (3 * TILE_SIZE) \div 4]

\* a player in the middle of the tile right of tile (x, y)
ProbeBeside(x, y) ==
    [PlayerReset EXCEPT !.x = (x + 1) * TILE_SIZE + TILE_SIZE \div 2,
                        !.y = y * TILE_SIZE + TILE_SIZE \div 2]

\* the tile loop body of resolveCollisions for tile (x, y) moves the player
\* that overlaps the tile
TilePushes(lv, x, y) ==
    LET p == ProbeOn(x, y)
    IN resolveTile(p, lv, x, y, p.x - p.width \div 2, p.x + p.width \div 2,
                   p.y - p.height \div 2, p.y + p.height \div 2) # p

InitLevel ==
    /\ pc = "query"
    /\ pad = PadIdle
    /\ input = NewInput
    /\ dt = 0
    /\ state = MENU
    /\ player = PlayerReset
    /\ level = NULL
    /\ currentLevelIndex = 0
    /\ levelTime = 0
    /\ totalTime = 0
    /\ deathCount = 0
    /\ deathTimer = 0
    /\ camera = NewCamera
    /\ particles = <<>>
    /\ loaded = <<>>
    /\ q \in Queries
    /\ hist = NoHist

\* isSolidTile, getTile and Level.getTile at the drawn coordinates, and what
\* the collision resolver and the wall check make of the tile there
Query ==
    /\ pc = "query"
    /\ ~q.done
    /\ q' = [q EXCEPT !.done = TRUE,
                      !.solid = isSolidTile(Lvl(q.lv), q.x, q.y),
                      !.tile = getTile(Lvl(q.lv), q.x, q.y),
                      !.levelTile = LevelGetTile(Lvl(q.lv), q.x, q.y),
                      !.pushes = TilePushes(Lvl(q.lv), q.x, q.y),
                      !.wall = checkWallCollision(ProbeBeside(q.x, q.y),
                                                  Lvl(q.lv), -1)]
    /\ UNCHANGED <<pc, pad, input, dt, gameVars, loaded, hist>>

SpecLevel == InitLevel /\ [][Query]_vars

\* Player.update up to and including handleWallDetection: the player
\* handleJumping starts from
BeforeJumping(p, in, lv, d) ==
    handleWallDetection(handleHorizontalMovement(updateTimers(p, d), in),
                        in, lv)

\* Player.update up to and including the integration of the position: the
\* player resolveCollisions starts from
BeforeResolve(p, in, lv, d) ==
    LET p5 == applyGravity(handleJumping(BeforeJumping(p, in, lv, d), in), d)
    IN [p5 EXCEPT !.x = @ + p5.vx * d, !.y = @ + p5.vy * d]

\* handleJumping launches a jump from player b: wantToJump and one of the
\* three branches
Launches(b, in) ==
    /\ in.jumpPressed \/ b.jumpBufferTimer > 0
    /\ b.wallSliding \/ b.grounded \/ b.coyoteTimer > 0

\* the rows of tiles the player's rectangle reaches into
RowsOf(p) ==
    FloorDiv(p.y - p.height \div 2, TILE_SIZE)..
        FloorDiv(p.y + p.height \div 2, TILE_SIZE)

\* the columns of tiles the player's rectangle reaches into
ColsOf(p) ==
    FloorDiv(p.x - p.width \div 2, TILE_SIZE)..
        FloorDiv(p.x + p.width \div 2, TILE_SIZE)

\* player a lies wholly above a solid tile under one of its columns and
\* player b lies wholly below that tile
Crossed(a, b, lv) ==
    \E tx \in ColsOf(a) \cap ColsOf(b), ty \in 0..(lv.height - 1) :
        /\ isSolidTile(lv, tx, ty)
        /\ a.y + a.height \div 2 <= ty * TILE_SIZE
        /\ b.y - b.height \div 2 >= (ty + 1) * TILE_SIZE

\* the record of the calls after Player.update(in, d) took player p to p2
Recorded(h, p, p2, in, lv, d) ==
    LET launch == Launches(BeforeJumping(p, in, lv, d), in)
    IN [frames |-> h.frames + 1,
        airTime |-> IF p2.grounded THEN 0
                    ELSE IF h.airTime < 0 THEN -1
                    ELSE h.airTime + d,
        launched |-> ~p2.grounded /\ (h.launched \/ launch),
        pressAge |-> IF launch THEN -1
                     ELSE IF in.jumpPressed /\ ~p.grounded THEN 0
                     ELSE IF h.pressAge >= 0 THEN h.pressAge + d
                     ELSE -1,
        crossed |-> h.crossed \/ Crossed(p, p2, lv),
        presses |-> h.presses + (IF in.jumpPressed THEN 1 ELSE 0),
        launches |-> h.launches + (IF launch THEN 1 ELSE 0),
        wallJumpAge |-> IF launch /\ BeforeJumping(p, in, lv, d).wallSliding
                        THEN 0
                        ELSE IF h.wallJumpAge >= 0 THEN h.wallJumpAge + d
                        ELSE -1,
        toggles |-> h.toggles]

\* the frame time main.js aims at: 1 / TARGET_FPS
DT_FRAME == TPS \div 60

MaxFrames == 5

\* the level the player is driven on
PLAY_LEVEL == NumLevelFiles + 1

\* where the player starts, in pixels: on the floor, on the floor at the
\* ledge, in the air above the floor, and in the air against the right edge
\* of the level just under its top
PlayStarts == {<<24, 56>>, <<54, 56>>, <<24, 52>>, <<88, 10>>}

\* the player spawnPlayer leaves on a level whose spawn point is (x, y)
PlacedPlayer(x, y) == [PlayerReset EXCEPT !.x = x * PX, !.y = y * PX]

\* a session in Playing on level ref with the player placed at one of starts
InitPlaced(ref, starts) ==
    /\ pc = "play"
    /\ pad = PadIdle
    /\ input = NewInput
    /\ dt = 0
    /\ state = PLAYING
    /\ \E s \in starts : player = PlacedPlayer(s[1], s[2])
    /\ level = ref
    /\ currentLevelIndex = 0
    /\ levelTime = 0
    /\ totalTime = 0
    /\ deathCount = 0
    /\ deathTimer = 0
    /\ camera = NewCamera
    /\ particles = <<>>
    /\ loaded = <<>>
    /\ q = NoQuery
    /\ hist = NoHist

\* one Player.update(in, d, level) call with in drawn from ins, d from dts
Frame(ins, dts) ==
    /\ pc = "play"
    /\ hist.frames < MaxFrames
    /\ \E in \in ins, d \in dts :
          /\ input' = in
          /\ dt' = d
          /\ \E p2 \in {PlayerUpdate(player, in, Lvl(level), d)} :
                /\ player' = p2
                /\ hist' = Recorded(hist, player, p2, in, Lvl(level), d)
    /\ UNCHANGED <<pc, pad, state, level, currentLevelIndex, levelTime,
                   totalTime, deathCount, deathTimer, camera, particles,
                   loaded, q>>

\* the inputs the player is driven with: nothing, right, a jump press, right
\* with a jump press, and the jump button kept down
PlayInputs ==
    {In(0, FALSE, FALSE, FALSE, FALSE),
     In(MOVE_ONE, FALSE, FALSE, FALSE, FALSE),
     In(0, TRUE, TRUE, FALSE, FALSE),
     In(MOVE_ONE, TRUE, TRUE, FALSE, FALSE),
     In(0, FALSE, TRUE, FALSE, FALSE)}

\* the frame times the player is driven with: 0.03 s and 0.05 s
DT_SHORT == (3 * TPS) \div 100

PlayDts == {DT_SHORT, DT_HALF}

InitPlay == InitPlaced(PLAY_LEVEL, PlayStarts)

PlayFrame == Frame(PlayInputs, PlayDts)

SpecPlay == InitPlay /\ [][PlayFrame]_vars

\* where the player at a wall starts, in pixels: in the air against the left
\* and against the right edge of the level with the ledge, just under its
\* top, and on the floor at the ledge
WallStarts == {<<8, 10>>, <<88, 10>>, <<54, 56>>}

\* the inputs at a wall: nothing, left, right, and left and right with a jump
\* press
WallInputs ==
    {In(0, FALSE, FALSE, FALSE, FALSE),
     In(-MOVE_ONE, FALSE, FALSE, FALSE, FALSE),
     In(MOVE_ONE, FALSE, FALSE, FALSE, FALSE),
     In(-MOVE_ONE, TRUE, TRUE, FALSE, FALSE),
     In(MOVE_ONE, TRUE, TRUE, FALSE, FALSE)}

InitWall == InitPlaced(PLAY_LEVEL, WallStarts)

WallFrame == Frame(WallInputs, PlayDts)

SpecWall == InitWall /\ [][WallFrame]_vars

\* where the landing player starts, in pixels: in the air 2 px and 6 px above
\* the floor of the level with the ledge, against the left edge of the level
\* and one tile away from it
LandStarts == {<<8, 54>>, <<8, 50>>, <<24, 54>>}

InitLand == InitPlaced(PLAY_LEVEL, LandStarts)

LandFrame == Frame(WallInputs, PlayDts)

SpecLand == InitLand /\ [][LandFrame]_vars

\* where the player at the ledge starts, in pixels: on the floor of the level
\* with the ledge, 2 px left of the wall tile past the ledge, and one tile
\* further left
LedgeStarts == {<<54, 56>>, <<38, 56>>}

InitLedge == InitPlaced(PLAY_LEVEL, LedgeStarts)

\* frames of 1/60 s
LedgeFrame == Frame(PlayInputs, {DT_FRAME})

SpecLedge == InitLedge /\ [][LedgeFrame]_vars

\* the level without tiles: level2.json
PIT_LEVEL == 2

\* the session after the advance to the level without tiles: Playing, the
\* player at the spawn point
InitPit ==
    /\ pc = "loop"
    /\ pad = PadIdle
    /\ input = NewInput
    /\ dt = 0
    /\ state = PLAYING
    /\ player = SpawnedPlayer(Lvl(PIT_LEVEL))
    /\ level = PIT_LEVEL
    /\ currentLevelIndex = PIT_LEVEL - 1
    /\ levelTime = 0
    /\ totalTime = DT_CAP
    /\ deathCount = 0
    /\ deathTimer = 0
    /\ camera = SpawnedCamera(NewCamera, Lvl(PIT_LEVEL))
    /\ particles = <<>>
    /\ loaded = <<"ok">>
    /\ q = NoQuery
    /\ hist = NoHist

\* the inputs over the pit, none with pause: nothing, left, right, and right
\* with a jump press
PitInputs ==
    {In(0, FALSE, FALSE, FALSE, FALSE),
     In(-MOVE_ONE, FALSE, FALSE, FALSE, FALSE),
     In(MOVE_ONE, FALSE, FALSE, FALSE, FALSE),
     In(MOVE_ONE, TRUE, TRUE, FALSE, FALSE)}

\* the frame times over the pit: 1/60 s and 0.05 s
PitDts == {DT_FRAME, DT_HALF}

\* the model stops calling update over the pit after this many frames of
\* 1/60 s of level time
MaxPitFrames == 9

\* one Game.update(input, dt) call in Playing
PitUpdate ==
    /\ pc = "loop"
    /\ state = PLAYING
    /\ levelTime < MaxPitFrames * DT_FRAME
    /\ \E in \in PitInputs, d \in PitDts :
          /\ input' = in
          /\ dt' = d
          /\ GameUpdate(in, d)
    /\ UNCHANGED <<pc, pad, q, hist>>

SpecPit == InitPit /\ [][PitUpdate]_vars

\* the level with the flat floor
REST_LEVEL == 1

\* where the walking player starts, in pixels: on the flat floor, in the
\* middle of the level
WalkStarts == {<<x, 40>> : x \in 40..43}

\* the inputs of the walk: nothing, left and right
WalkInputs ==
    {In(0, FALSE, FALSE, FALSE, FALSE),
     In(-MOVE_ONE, FALSE, FALSE, FALSE, FALSE),
     In(MOVE_ONE, FALSE, FALSE, FALSE, FALSE)}

InitWalk == InitPlaced(REST_LEVEL, WalkStarts)

\* frames of 1/60 s and of 0.03 s
WalkFrame == Frame(WalkInputs, {DT_FRAME, DT_SHORT})

SpecWalk == InitWalk /\ [][WalkFrame]_vars

\* where the resting player starts, in pixels: on the floor and 2 px above
\* it, in the middle of a floor tile (x = 40) and across two floor tiles
RestStarts == {<<x, y>> : x \in 33..47, y \in {38, 40}}

\* zero input
RestInputs == {In(0, FALSE, FALSE, FALSE, FALSE)}

InitRest == InitPlaced(REST_LEVEL, RestStarts)

\* one Player.update call with zero input and dt = 1/60 s
RestFrame == Frame(RestInputs, {DT_FRAME})

SpecRest == InitRest /\ [][RestFrame]_vars

\* where the falling player starts, in pixels: in the air above the floor of
\* the level with the ledge, and in its last column, which has no floor
FallStarts == {<<24, 8>>, <<24, 24>>, <<40, 8>>, <<88, 8>>}

\* the inputs of the fall: nothing and right
FallInputs ==
    {In(0, FALSE, FALSE, FALSE, FALSE),
     In(MOVE_ONE, FALSE, FALSE, FALSE, FALSE)}

\* the frame times of the fall: 0.05 s and the cap of main.js, 0.1 s
FallDts == {DT_HALF, DT_CAP}

InitFall == InitPlaced(PLAY_LEVEL, FallStarts)

FallFrame == Frame(FallInputs, FallDts)

SpecFall == InitFall /\ [][FallFrame]_vars

MaxCoord == 3
MaxSide == 2

\* rectangles on the tile grid, in tiles
GridRects ==
    {Rect(x, y, w, h) : x \in 1..MaxCoord, y \in 1..MaxCoord,
                        w \in 1..MaxSide, h \in 1..MaxSide}

\* rectangle r of the grid in pixels, as loadLevel scales a hazard
Scaled(r) ==
    Rect(r.x * TILE_SIZE, r.y * TILE_SIZE,
         r.width * TILE_SIZE, r.height * TILE_SIZE)

\* a level file whose goal and only hazard are rectangle r
RectLevelJSON(r) ==
    [width |-> MaxCoord + MaxSide + 1, height |-> MaxCoord + MaxSide + 1,
     par_time |-> 0, tiles |-> << >>, spawn |-> Absent,
     goal |-> Given(r.x, r.y, r.width, r.height),
     hazards |-> << Given(r.x, r.y, r.width, r.height) >>]

\* the player in the middle of tile (x, y): its rectangle is that tile
PlayerOnTile(x, y) ==
    [PlayerReset EXCEPT !.x = x * TILE_SIZE + TILE_SIZE \div 2,
                        !.y = y * TILE_SIZE + TILE_SIZE \div 2]

\* the rectangle pairs rectsOverlap is asked about
RectQueries ==
    {[a |-> a, b |-> b, done |-> FALSE, overlap |-> FALSE, swapped |-> FALSE,
      kills |-> FALSE, completes |-> FALSE] : a \in GridRects, b \in GridRects}

InitRect ==
    /\ pc = "rect"
    /\ pad = PadIdle
    /\ input = NewInput
    /\ dt = 0
    /\ state = MENU
    /\ player = PlayerReset
    /\ level = NULL
    /\ currentLevelIndex = 0
    /\ levelTime = 0
    /\ totalTime = 0
    /\ deathCount = 0
    /\ deathTimer = 0
    /\ camera = NewCamera
    /\ particles = <<>>
    /\ loaded = <<>>
    /\ q \in RectQueries
    /\ hist = NoHist

\* rectsOverlap on the drawn pair, both ways round, and checkHazardCollision
\* and checkGoalCollision for the player on tile (a.x, a.y) of a level whose
\* hazard and goal are b
RectQuery ==
    /\ pc = "rect"
    /\ ~q.done
    /\ q' = [q EXCEPT
                !.done = TRUE,
                !.overlap = rectsOverlap(Scaled(q.a), Scaled(q.b)),
                !.swapped = rectsOverlap(Scaled(q.b), Scaled(q.a)),
                !.kills = checkHazardCollision(PlayerOnTile(q.a.x, q.a.y),
                                               loadLevel(RectLevelJSON(q.b))),
                !.completes = checkGoalCollision(PlayerOnTile(q.a.x, q.a.y),
                                                 loadLevel(RectLevelJSON(q.b)))]
    /\ UNCHANGED <<pc, pad, input, dt, gameVars, loaded, hist>>

SpecRect == InitRect /\ [][RectQuery]_vars

\* the rectangles of the level files loadLevel is asked about, in tiles,
\* fields of value 0 included
LoadRects ==
    {Rect(x, y, w, h) : x \in 0..1, y \in 0..1,
                        w \in 0..MaxSide, h \in 0..MaxSide}

\* a level file whose spawn point is tile (sx, sy) and whose goal and only
\* hazard are rectangle r
SpawnLevelJSON(sx, sy, r) ==
    [width |-> MaxCoord + MaxSide + 1, height |-> MaxCoord + MaxSide + 1,
     par_time |-> 0, tiles |-> << >>, spawn |-> Given(sx, sy, 0, 0),
     goal |-> Given(r.x, r.y, r.width, r.height),
     hazards |-> << Given(r.x, r.y, r.width, r.height) >>]

\* the level files loadLevel is asked about
LoadQueries ==
    {[sx |-> sx, sy |-> sy, rect |-> r, done |-> FALSE, lv |-> NewLevel] :
        sx \in 0..MaxCoord, sy \in 0..MaxCoord, r \in LoadRects}

InitLoad ==
    /\ pc = "load"
    /\ pad = PadIdle
    /\ input = NewInput
    /\ dt = 0
    /\ state = MENU
    /\ player = PlayerReset
    /\ level = NULL
    /\ currentLevelIndex = 0
    /\ levelTime = 0
    /\ totalTime = 0
    /\ deathCount = 0
    /\ deathTimer = 0
    /\ camera = NewCamera
    /\ particles = <<>>
    /\ loaded = <<>>
    /\ q \in LoadQueries
    /\ hist = NoHist

\* loadLevel on the drawn level file
LoadQuery ==
    /\ pc = "load"
    /\ ~q.done
    /\ q' = [q EXCEPT !.done = TRUE,
                      !.lv = loadLevel(SpawnLevelJSON(q.sx, q.sy, q.rect))]
    /\ UNCHANGED <<pc, pad, input, dt, gameVars, loaded, hist>>

SpecLoad == InitLoad /\ [][LoadQuery]_vars

MaxRows == 3
MaxSets == 2

\* the rows of a tile grid in a level file: empty, short, full and too long
\* for a level two tiles wide
GridRows == {<< >>, <<1>>, <<1, 2>>, <<2, 1, 1>>}

\* the tile grids of the level files: no row up to MaxRows rows
TileGrids == UNION {[1..n -> GridRows] : n \in 0..MaxRows}

\* a level file two tiles wide and two tiles high with tile grid g
TilesLevelJSON(g) ==
    [width |-> 2, height |-> 2, par_time |-> 0, tiles |-> g,
     spawn |-> Absent, goal |-> Absent, hazards |-> << >>]

\* the levels to make: from a level file with one of the grids, or the
\* default level
TileQueries ==
    {[from |-> "file", grid |-> g, made |-> FALSE, sets |-> 0,
      lv |-> NewLevel] : g \in TileGrids}
    \cup {[from |-> "default", grid |-> << >>, made |-> FALSE, sets |-> 0,
           lv |-> NewLevel]}

InitTiles ==
    /\ pc = "tiles"
    /\ pad = PadIdle
    /\ input = NewInput
    /\ dt = 0
    /\ state = MENU
    /\ player = PlayerReset
    /\ level = NULL
    /\ currentLevelIndex = 0
    /\ levelTime = 0
    /\ totalTime = 0
    /\ deathCount = 0
    /\ deathTimer = 0
    /\ camera = NewCamera
    /\ particles = <<>>
    /\ loaded = <<>>
    /\ q \in TileQueries
    /\ hist = NoHist

\* loadLevel on the drawn level file, or createDefaultLevel
MakeLevel ==
    /\ pc = "tiles"
    /\ ~q.made
    /\ q' = [q EXCEPT !.made = TRUE,
                      !.lv = IF q.from = "file"
                             THEN loadLevel(TilesLevelJSON(q.grid))
                             ELSE createDefaultLevel]
    /\ UNCHANGED <<pc, pad, input, dt, gameVars, loaded, hist>>

\* level.setTile(x, y, tile) with coordinates on and around the grid
SetOneTile ==
    /\ pc = "tiles"
    /\ q.made
    /\ q.sets < MaxSets
    /\ \E x \in {-1, 0, q.lv.width - 1, q.lv.width},
          y \in {-1, 0, q.lv.height - 1, q.lv.height},
          tile \in {EMPTY, SOLID, PLATFORM} :
          q' = [q EXCEPT !.sets = @ + 1, !.lv = SetTile(@, x, y, tile)]
    /\ UNCHANGED <<pc, pad, input, dt, gameVars, loaded, hist>>

NextTiles == MakeLevel \/ SetOneTile

SpecTiles == InitTiles /\ [][NextTiles]_vars

----------------------------------------------------------------------------
(* The session state machine: properties of Game.update *)

\* the update being made starts in Playing and pause is not pressed
PlayingStep == pc = "loop" /\ state = PLAYING /\ ~input'.pausePressed

\* the player as Player.update leaves it in the update being made
UpdatedPlayer == PlayerUpdate(player, input', Lvl(level), dt')

\* the player stands at the spawn point of lv as spawnPlayer leaves it
AtSpawn(p, lv) ==
    /\ p.x = lv.spawnX /\ p.y = lv.spawnY
    /\ p.vx = 0 /\ p.vy = 0
    /\ ~p.grounded /\ ~p.wallSliding /\ p.wallDirection = 0
    /\ ~p.jumpHeld /\ ~p.canVariableJump
    /\ p.coyoteTimer = 0 /\ p.jumpBufferTimer = 0 /\ p.wallJumpCooldown = 0

\* how many of the particles ps outlive an update of d
Outliving(ps, d) == Cardinality({i \in 1..Len(ps) : ps[i].life > d})

AllowedTransitions ==
    {<<MENU, PLAYING>>, <<PLAYING, PAUSED>>, <<PLAYING, DEAD>>,
     <<PLAYING, LEVEL_COMPLETE>>, <<DEAD, PLAYING>>,
     <<LEVEL_COMPLETE, PLAYING>>, <<PAUSED, PLAYING>>}

\* C1: every change of Game.state made by an update is one of Menu->Playing,
\* Playing->Paused, Playing->Dead, Playing->LevelComplete, Dead->Playing,
\* LevelComplete->Playing, Paused->Playing; so Menu is never re-entered and
\* Dead, LevelComplete and Paused are left only towards Playing.
C1_Transitions ==
    [][state' # state => <<state, state'>> \in AllowedTransitions]_vars

\* a session that has died, respawned, completed a level, advanced and paused
C1_Witness ==
    /\ state = PAUSED
    /\ deathCount >= 1
    /\ currentLevelIndex >= 1

\* C2 (as stated): a Playing update without pause whose player update ends on
\* a hazard or below the fall-out line ends Dead with deathCount one higher,
\* deathTimer = DEATH_RESPAWN_TIME and exactly 20 more particles than before.
C2_KillExactlyTwentyMore ==
    [][PlayingStep /\ checkHazardCollision(UpdatedPlayer, Lvl(level))
        => /\ state' = DEAD
           /\ deathCount' = deathCount + 1
           /\ deathTimer' = DEATH_RESPAWN_TIME
           /\ Len(particles') = Len(particles) + PARTICLE_COUNT]_vars

\* C2 (amended): such an update ends Dead with deathCount one higher and
\* deathTimer = DEATH_RESPAWN_TIME, and the particle collection then holds the
\* 20 new particles together with those earlier ones whose remaining life
\* exceeds dt; it holds exactly 20 more only when no earlier particle expires.
C2_Kill ==
    [][PlayingStep /\ checkHazardCollision(UpdatedPlayer, Lvl(level))
        => /\ state' = DEAD
           /\ deathCount' = deathCount + 1
           /\ deathTimer' = DEATH_RESPAWN_TIME
           /\ Len(particles') = Outliving(particles, dt') + PARTICLE_COUNT
           /\ \A i \in 1..PARTICLE_COUNT :
                  LET pt == particles'[Len(particles') - PARTICLE_COUNT + i]
                  IN pt.life = pt.maxLife - dt']_vars

\* the session has just died for the second time: the timer is armed and the
\* collection holds the burst of this death and nothing of the first
C2_Witness ==
    /\ state = DEAD
    /\ deathTimer = DEATH_RESPAWN_TIME
    /\ deathCount = 2
    /\ Len(particles) = PARTICLE_COUNT

\* C3: a Playing update whose player update ends on the goal and on no hazard
\* ends in LevelComplete without advancing levelTime, and levelTime keeps its
\* value in every update that starts and ends in LevelComplete.
C3_GoalFreezesTime ==
    [][/\ PlayingStep /\ ~checkHazardCollision(UpdatedPlayer, Lvl(level))
                      /\ checkGoalCollision(UpdatedPlayer, Lvl(level))
           => state' = LEVEL_COMPLETE /\ levelTime' = levelTime
       /\ state = LEVEL_COMPLETE /\ state' = LEVEL_COMPLETE
           => levelTime' = levelTime]_vars

\* a level completed after some play time, and an update spent in LevelComplete
C3_Witness ==
    /\ state = LEVEL_COMPLETE
    /\ levelTime > 0
    /\ input.pausePressed

\* C4: the respawn timer is armed to DEATH_RESPAWN_TIME at the death and
\* counted down by dt in each Dead update; while it stays above zero the
\* session stays Dead, and the first update that brings it to zero or below
\* ends in Playing with the player at the spawn point, at rest, timers and
\* flags reset, the camera at the player, deathCount and levelTime unchanged.
C4_Respawn ==
    [][/\ state # DEAD /\ state' = DEAD => deathTimer' = DEATH_RESPAWN_TIME
       /\ pc = "loop" /\ state = DEAD =>
            /\ deathTimer' = deathTimer - dt'
            /\ deathCount' = deathCount
            /\ levelTime' = levelTime
            /\ IF deathTimer - dt' > 0
               THEN state' = DEAD /\ player' = player
               ELSE /\ state' = PLAYING
                    /\ AtSpawn(player', Lvl(level))
                    /\ camera'.x = player'.x
                    /\ camera'.y = player'.y]_vars

\* a respawn just made, after a death that followed some play time
C4_Witness ==
    /\ state = PLAYING
    /\ deathCount >= 1
    /\ deathTimer = 0
    /\ levelTime > 0
    /\ AtSpawn(player, Lvl(level))
    /\ camera.x = player.x

\* C5: whenever the session is Dead it is eventually Playing again, whatever
\* the inputs, as long as updates keep being made.
C5_DeadLeadsToPlaying == (state = DEAD) ~> (state = PLAYING)

\* a Dead session part of the way through the respawn delay
C5_Witness ==
    /\ state = DEAD
    /\ 0 < deathTimer
    /\ deathTimer < DEATH_RESPAWN_TIME

\* C6: an update that starts in Menu, Paused, Dead or LevelComplete and does
\* not end in Playing leaves the player, the camera, levelTime and deathCount
\* unchanged and keeps the state; one that does end in Playing leaves the
\* player either unchanged or at the spawn point at rest. No physics, hazard
\* check, goal check or camera tracking is run outside Playing.
C6_Frame ==
    [][pc = "loop" /\ state # PLAYING =>
          /\ deathCount' = deathCount
          /\ state' \in {state, PLAYING}
          /\ state' # PLAYING =>
                /\ player' = player
                /\ camera' = camera
                /\ levelTime' = levelTime
          /\ state' = PLAYING =>
                \/ player' = player /\ camera' = camera
                \/ AtSpawn(player', Lvl(level'))]_vars

\* a player paused in mid-air, after an update in Paused without pause pressed
C6_Witness ==
    /\ state = PAUSED
    /\ ~input.pausePressed
    /\ player.vy # 0

\* everything of the session but state and particles
SessionRest ==
    <<player, level, currentLevelIndex, levelTime, totalTime, deathCount,
      deathTimer, camera>>

\* C7 (as stated): an update in Playing with pausePressed ends in Paused and
\* an update in Paused with pausePressed ends in Playing, and neither changes
\* anything else.
C7_PauseChangesNothingElse ==
    [][pc = "loop" /\ state \in {PLAYING, PAUSED} /\ input'.pausePressed
        => /\ state' = (IF state = PLAYING THEN PAUSED ELSE PLAYING)
           /\ UNCHANGED SessionRest
           /\ UNCHANGED particles]_vars

\* C7 (amended): an update in Playing with pausePressed ends in Paused and an
\* update in Paused ends in Playing with pausePressed and in Paused without;
\* none of them runs the player update, hazard check, goal check, camera or
\* level timer, so player, camera, levelTime and deathCount are the same after
\* pause and resume. The particle collection is the one thing they change:
\* it is aged by dt and pruned as in every update.
C7_Pause ==
    [][/\ pc = "loop" /\ state \in {PLAYING, PAUSED} /\ input'.pausePressed
           => /\ state' = (IF state = PLAYING THEN PAUSED ELSE PLAYING)
              /\ UNCHANGED SessionRest
              /\ particles' = updateParticles(particles, dt')
       /\ pc = "loop" /\ state = PAUSED /\ ~input'.pausePressed
           => /\ state' = PAUSED
              /\ UNCHANGED SessionRest]_vars

\* paused on the first update of a level whose hazard contains the spawn point
C7_Witness ==
    /\ state = PAUSED
    /\ deathCount = 0
    /\ checkHazardCollision(player, Lvl(level))

\* C8: an update in LevelComplete with jumpPressed or startPressed ends in
\* Playing with levelTime = 0 and the player at the spawn point of the level
\* the session then has: the next level if its file loads (the index
\* advanced), the current level if that file does not parse (the index
\* advanced), level 1 if the next file is missing and level1.json loads (the
\* index back to 0), and the current level if that fails too (index 0).
C8_Advance ==
    [][pc = "loop" /\ state = LEVEL_COMPLETE
                   /\ (input'.jumpPressed \/ input'.startPressed)
        => /\ state' = PLAYING
           /\ levelTime' = 0
           /\ AtSpawn(player', Lvl(level'))
           /\ loaded'[1] = "ok" =>
                 /\ level' = currentLevelIndex + 2
                 /\ currentLevelIndex' = currentLevelIndex + 1
           /\ loaded'[1] = "bad" =>
                 /\ level' = level
                 /\ currentLevelIndex' = currentLevelIndex + 1
           /\ loaded'[1] = "missing" =>
                 /\ currentLevelIndex' = 0
                 /\ level' = (IF loaded'[2] = "ok" THEN 1 ELSE level)]_vars

\* an advance on which neither the next level nor level 1 could be loaded
C8_Witness ==
    /\ state = PLAYING
    /\ Len(loaded) = 2
    /\ loaded[2] # "ok"
    /\ levelTime = 0
    /\ AtSpawn(player, Lvl(level))

----------------------------------------------------------------------------
(* Input.update *)

JumpDown(pd) == Pressed(pd, "CROSS") \/ Pressed(pd, "R1") \/ Pressed(pd, "R2")

\* button b is down in the reading of this poll and was up in the one before
Rising(b) == Pressed(pad', b) /\ ~Pressed(pad, b)

\* C9: jumpPressed, startPressed and pausePressed are true in exactly the
\* Input.update in which their button goes from released to held (START or
\* SELECT for pause), and jumpHeld is the current level of the jump buttons.
C9_EdgeTriggered ==
    [][pc = "loop" =>
          /\ input'.jumpPressed = (JumpDown(pad') /\ ~JumpDown(pad))
          /\ input'.jumpHeld = JumpDown(pad')
          /\ input'.startPressed = Rising("START")
          /\ input'.pausePressed = (Rising("START") \/ Rising("SELECT"))]_vars

----------------------------------------------------------------------------
(* The level queries *)

\* C10: at every tile coordinate with x < 0 or x >= width, whatever y,
\* isSolidTile is true and getTile and Level.getTile return Solid.
C10_SideWalls ==
    q.done /\ (q.x < 0 \/ q.x >= Lvl(q.lv).width)
        => q.solid /\ q.tile = SOLID /\ q.levelTile = SOLID

\* a query beside and below the grid, where the rows alone would say no floor
C10_Witness ==
    /\ q.done
    /\ q.x >= Lvl(q.lv).width
    /\ q.y >= Lvl(q.lv).height
    /\ q.solid

\* C11 (as stated): isSolidTile is true for every y < 0 and false for every
\* y >= height, at every x.
C11_CeilingAndOpenBottomAnyX ==
    q.done => /\ q.y < 0 => q.solid
              /\ q.y >= Lvl(q.lv).height => ~q.solid

\* C11 (amended): isSolidTile is true for every y < 0 at every x, and false
\* for every y >= height at every x inside [0, width); beside the grid, where
\* x < 0 or x >= width, it is true below the level as well.
C11_CeilingAndOpenBottom ==
    q.done => /\ q.y < 0 => q.solid
              /\ q.y >= Lvl(q.lv).height =>
                    (q.solid <=> (q.x < 0 \/ q.x >= Lvl(q.lv).width))

\* a query below the grid and inside its columns, answered not solid
C11_Witness ==
    /\ q.done
    /\ q.y >= Lvl(q.lv).height
    /\ q.x >= 0 /\ q.x < Lvl(q.lv).width
    /\ ~q.solid

\* C12: for x inside [0, width), getTile is Empty for every y < 0 and every
\* y >= height; for (x, y) inside the grid isSolidTile is true exactly when
\* getTile is Solid, so a Platform tile is not solid: the collision resolver
\* does not move a player that overlaps it and the wall check does not see it.
C12_PlatformNotSolid ==
    q.done /\ q.x >= 0 /\ q.x < Lvl(q.lv).width =>
        /\ q.y < 0 \/ q.y >= Lvl(q.lv).height => q.tile = EMPTY
        /\ q.y >= 0 /\ q.y < Lvl(q.lv).height =>
              /\ q.solid <=> q.tile = SOLID
              /\ q.pushes <=> q.tile = SOLID
              /\ q.wall <=> q.tile = SOLID
              /\ q.tile = PLATFORM => ~q.solid /\ ~q.pushes /\ ~q.wall

\* a query that found a Platform tile
C12_Witness ==
    /\ q.done
    /\ q.tile = PLATFORM
    /\ q.levelTile = PLATFORM
    /\ ~q.solid

----------------------------------------------------------------------------
(* The player: properties of Player.update *)

\* a Player.update call is being made
PlayStep == pc = "play"

\* the player handleJumping starts from in the call being made
Jumper == BeforeJumping(player, input', Lvl(level), dt')

\* the player handleJumping leaves in the call being made
Jumped == handleJumping(Jumper, input')

\* the player resolveCollisions starts from in the call being made
Mover == BeforeResolve(player, input', Lvl(level), dt')

\* the vertical branch of the resolver pushes player r upward out of a solid
\* tile among the tiles its rectangle reaches into
PushedUp(r, lv) ==
    LET left == r.x - r.width \div 2
        right == r.x + r.width \div 2
        top == r.y - r.height \div 2
        bottom == r.y + r.height \div 2
    IN \E tx \in ColsOf(r), ty \in RowsOf(r) :
          LET oL == right - tx * TILE_SIZE
              oR == (tx + 1) * TILE_SIZE - left
              oT == bottom - ty * TILE_SIZE
              oB == (ty + 1) * TILE_SIZE - top
          IN /\ isSolidTile(lv, tx, ty)
             /\ oT < oB /\ oT > 0
             /\ ~(Abs(IF oL < oR THEN oL ELSE oR) < oT)

\* C13: when the vertical resolution of a resolveCollisions pass pushes the
\* player upward out of at least one solid tile, the pass, and the
\* Player.update call around it, end with grounded true and coyoteTimer equal
\* to COYOTE_TIME, whatever tiles are scanned afterwards.
C13_Landing ==
    [][PlayStep /\ PushedUp(Mover, Lvl(level)) =>
          /\ resolveCollisions(Mover, Lvl(level)).grounded
          /\ resolveCollisions(Mover, Lvl(level)).coyoteTimer = COYOTE_TIME
          /\ player'.grounded
          /\ player'.coyoteTimer = COYOTE_TIME]_vars

\* the player has landed on a floor tile and the pass went on to scan the
\* solid tile right of it
C13_Witness ==
    LET lv == Lvl(level)
        row == FloorDiv(player.y + player.height \div 2, TILE_SIZE)
        col == FloorDiv(player.x - player.width \div 2, TILE_SIZE)
    IN /\ hist.frames > 0
       /\ player.grounded
       /\ player.coyoteTimer = COYOTE_TIME
       /\ player.y + player.height \div 2 = row * TILE_SIZE
       /\ isSolidTile(lv, col, row)
       /\ isSolidTile(lv, col + 1, row)
       /\ col + 1 \in ColsOf(player)

\* the call being made starts in the air, the player having left the ground
\* without a jump, and jumpPressed is true in it
CoyotePress ==
    /\ PlayStep
    /\ ~player.grounded
    /\ hist.airTime >= 0
    /\ ~hist.launched
    /\ input'.jumpPressed
    /\ input'.jumpHeld

\* C14 (as stated): a jump pressed within COYOTE_TIME of accumulated dt after
\* the last grounded frame, the player having left the ground without
\* jumping, launches the ground jump: vy = -JUMP_FORCE.
C14_CoyoteAlways ==
    [][CoyotePress /\ hist.airTime + dt' < COYOTE_TIME =>
          /\ Jumped.vy = -JUMP_FORCE
          /\ ~Jumped.grounded]_vars

\* C14 (amended): in such a call, if the player is wall-sliding the wall jump
\* launches instead; otherwise the ground jump launches when the dt
\* accumulated since the last grounded frame, this call's included, is
\* strictly below COYOTE_TIME, and nothing launches when it is not.
C14_Coyote ==
    [][CoyotePress =>
          IF Jumper.wallSliding
          THEN /\ Jumped.vy = -WALL_JUMP_FORCE_Y
               /\ Jumped.vx = -Jumper.wallDirection * WALL_JUMP_FORCE_X
          ELSE IF hist.airTime + dt' < COYOTE_TIME
          THEN /\ Jumped.vy = -JUMP_FORCE
               /\ ~Jumped.grounded
               /\ Jumped.coyoteTimer = 0
               /\ Jumped.canVariableJump
          ELSE /\ Jumped.vy = Jumper.vy
               /\ Jumped.jumpBufferTimer = JUMP_BUFFER_TIME]_vars

\* the call just made launched a ground jump from the air: it began in the
\* air after a grounded one, jumpPressed was true and no wall jump was made
C14_Witness ==
    /\ input.jumpPressed
    /\ hist.launched
    /\ hist.pressAge = -1
    /\ hist.airTime > dt
    /\ player.wallJumpCooldown <= 0
    /\ player.canVariableJump
    /\ player.vy < 0
    /\ ~player.grounded

\* the call being made is the landing one: it starts in the air and its
\* resolver pass sets grounded
Landing == PlayStep /\ ~player.grounded /\ player'.grounded

\* C15 (as stated): a jump press registered in the air less than
\* JUMP_BUFFER_TIME of accumulated dt before the landing launches the ground
\* jump in the landing call, the Player.update call whose resolver pass sets
\* grounded from false to true.
C15_BufferedJumpOnLanding ==
    [][Landing /\ hist.pressAge >= 0
               /\ hist.pressAge + dt' < JUMP_BUFFER_TIME =>
          /\ Launches(Jumper, input')
          /\ Jumped.vy = -JUMP_FORCE]_vars

\* the vertical speed handleJumping has set when it comes to the jump cut
\* in the call being made: that of the launch, if it launches
CutSpeed ==
    IF ~Launches(Jumper, input') THEN Jumper.vy
    ELSE IF Jumper.wallSliding THEN -WALL_JUMP_FORCE_Y
    ELSE -JUMP_FORCE

\* canVariableJump when handleJumping comes to the jump cut
CutArmed == Launches(Jumper, input') \/ Jumper.canVariableJump

\* C16: in a call with jumpHeld false, if canVariableJump is true and vy < 0
\* handleJumping multiplies vy by JUMP_CUT_MULT, once, and sets
\* canVariableJump to false; in a call with jumpHeld false and canVariableJump
\* false that launches nothing, handleJumping leaves vy as it is.
C16_JumpCut ==
    [][PlayStep /\ ~input'.jumpHeld =>
          /\ CutArmed /\ CutSpeed < 0 =>
                /\ Jumped.vy = MulDiv(CutSpeed, JUMP_CUT_NUM, JUMP_CUT_DEN)
                /\ ~Jumped.canVariableJump
                /\ ~player'.canVariableJump
          /\ ~CutArmed =>
                /\ Jumped.vy = Jumper.vy
                /\ ~player'.canVariableJump]_vars

\* the player rises after a jump that was cut: the button is up, the jump was
\* launched at least two calls ago and canVariableJump is false
C16_Witness ==
    /\ hist.launched
    /\ hist.airTime > dt
    /\ ~input.jumpHeld
    /\ ~player.jumpHeld
    /\ ~player.canVariableJump
    /\ player.vy < 0
    /\ ~player.grounded

FloorTop == (Lvl(REST_LEVEL).height - 1) * TILE_SIZE

\* the bottom edge of the player
Bottom(p) == p.y + p.height \div 2

\* C18 (as stated): on the flat floor with zero input and dt = 1/60, from any
\* horizontal position, vx is 0 in every frame, and once the player has
\* landed every frame ends with grounded true, vy = 0 and the bottom edge
\* exactly at the top of the floor.
C18_RestsOnFloor ==
    [][PlayStep =>
          /\ player'.vx = 0
          /\ player'.grounded =>
                /\ player'.vy = 0
                /\ Bottom(player') = FloorTop
          /\ player.grounded => player'.grounded]_vars

\* C19 (as stated): for every dt up to 0.1 s and every velocity within the
\* limits, no Player.update call takes the player from one side of a solid
\* tile to the opposite side.
C19_NoTunneling == ~hist.crossed

\* the player updateTimers leaves in the call being made
Ticked == updateTimers(player, dt')

\* timer value t after a countdown by d that stops only at or below zero
CountedDown(t, d) == IF t > 0 THEN t - d ELSE t

\* C24 (as stated): after every Player.update coyoteTimer, jumpBufferTimer
\* and wallJumpCooldown are each >= 0, the countdown being floored at zero.
C24_TimersFloored ==
    /\ player.coyoteTimer >= 0
    /\ player.jumpBufferTimer >= 0
    /\ player.wallJumpCooldown >= 0

\* C24 (amended): updateTimers subtracts dt from each timer that is positive
\* and leaves the others alone, without a floor: a timer whose remaining
\* value is below dt ends negative, above -dt, and stays there until it is
\* armed again, so after every Player.update each timer is above -0.1 s.
C24_Timers ==
    [][PlayStep =>
          /\ Ticked.coyoteTimer = CountedDown(player.coyoteTimer, dt')
          /\ Ticked.jumpBufferTimer = CountedDown(player.jumpBufferTimer, dt')
          /\ Ticked.wallJumpCooldown =
                CountedDown(player.wallJumpCooldown, dt')
          /\ player'.coyoteTimer > -DT_CAP
          /\ player'.jumpBufferTimer > -DT_CAP
          /\ player'.wallJumpCooldown > -DT_CAP
          /\ player'.coyoteTimer < 0 => player'.coyoteTimer > -dt'
                                        \/ player.coyoteTimer < 0]_vars

\* a Player.update call with dt larger than what was left of the coyote timer
\* and of the jump buffer timer has left both below zero
C24_Witness ==
    /\ hist.frames > 0
    /\ player.coyoteTimer < 0
    /\ player.jumpBufferTimer < 0
    /\ player.coyoteTimer > -dt

\* the player applyGravity leaves in the call being made
Fallen == applyGravity(Jumped, dt')

\* C25 (as stated): while wall-sliding, vy after applyGravity never exceeds
\* WALL_SLIDE_SPEED.
C25_SlideSpeedCeiling ==
    [][PlayStep /\ Jumped.wallSliding => Fallen.vy <= WALL_SLIDE_SPEED]_vars

\* what gravity adds to vertical speed v in a call of d ticks when the player
\* is not wall-sliding
GravityStep(v, d) ==
    IF v > 0 THEN MulDiv(GRAVITY * FAST_FALL_NUM, d, FAST_FALL_DEN * TPS)
    ELSE MulDiv(GRAVITY, d, TPS)

\* C26: after applyGravity and after every complete Player.update
\* vy <= MAX_FALL_SPEED; when the player is not wall-sliding, applyGravity
\* adds GRAVITY * dt to a vy <= 0 and GRAVITY * FAST_FALL_MULT * dt to a
\* vy > 0, and then clamps vy from above.
C26_TerminalVelocity ==
    [][PlayStep =>
          /\ Fallen.vy <= MAX_FALL_SPEED
          /\ player'.vy <= MAX_FALL_SPEED
          /\ ~Jumped.wallSliding =>
                Fallen.vy = Min(Jumped.vy + GravityStep(Jumped.vy, dt'),
                                MAX_FALL_SPEED)]_vars

\* the player falls at the terminal velocity, the clamp having cut its speed
C26_Witness ==
    /\ hist.frames > 0
    /\ ~player.grounded
    /\ ~player.wallSliding
    /\ player.vy = MAX_FALL_SPEED

\* the player handleWallDetection starts from in the call
Steered == handleHorizontalMovement(Ticked, input')

\* isSolidTile at the point handleWallDetection samples on side d of player p
WallSample(p, lv, d) ==
    isSolidTile(lv, FloorDiv(p.x + d * (p.width \div 2 + 2 * PX), TILE_SIZE),
                FloorDiv(p.y, TILE_SIZE))

\* moveX presses toward side d: moveX < -0.1 for d = -1, moveX > 0.1 for d = 1
PressesToward(in, d) ==
    IF d = -1 THEN 10 * in.moveX < -MOVE_ONE ELSE 10 * in.moveX > MOVE_ONE

\* C27: after handleWallDetection wallSliding is true only if
\* wallJumpCooldown is not positive, grounded is false, vy >= 0, and for a side
\* d the tile at the sample point (x + d * (width/2 + 2), y) is solid and
\* moveX presses toward d, and then wallDirection = d; when wallSliding is
\* false after it wallDirection is 0; nothing later in Player.update sets
\* wallSliding.
C27_WallDetection ==
    [][PlayStep =>
          /\ Jumper.wallSliding =>
                /\ Steered.wallJumpCooldown <= 0
                /\ ~Steered.grounded
                /\ Steered.vy >= 0
                /\ \E d \in {-1, 1} :
                      /\ WallSample(Steered, Lvl(level), d)
                      /\ PressesToward(input', d)
                      /\ Jumper.wallDirection = d
          /\ ~Jumper.wallSliding => Jumper.wallDirection = 0
          /\ player'.wallSliding => Jumper.wallSliding]_vars

\* the player slides on the wall to its left
C27_Witness ==
    /\ hist.frames > 0
    /\ player.wallSliding
    /\ player.wallDirection = -1

\* the player slides on the wall to its right
C27_WitnessRight ==
    /\ hist.frames > 0
    /\ player.wallSliding
    /\ player.wallDirection = 1

\* C28: from the call in which a wall jump launches, wallSliding is false at
\* the end of every call until the calls after the launch add up to at least
\* WALL_JUMP_COOLDOWN (hist.wallJumpAge is the dt accumulated since the latest
\* wall-jump launch, -1 before the first).
C28_NoRegrabInCooldown ==
    (hist.wallJumpAge >= 0 /\ hist.wallJumpAge < WALL_JUMP_COOLDOWN)
        => ~player.wallSliding

\* within the cooldown the player falls at a wall and presses toward it, and
\* does not slide
C28_Witness ==
    /\ hist.wallJumpAge > 0
    /\ hist.wallJumpAge < WALL_JUMP_COOLDOWN
    /\ ~player.grounded
    /\ player.vy > 0
    /\ player.wallJumpCooldown > 0
    /\ \E d \in {-1, 1} :
          WallSample(player, Lvl(level), d) /\ PressesToward(input, d)
    /\ ~player.wallSliding

\* the cooldown over, the player slides on the wall again
C28_WitnessRegrab ==
    /\ hist.wallJumpAge >= WALL_JUMP_COOLDOWN
    /\ player.wallSliding

\* moveX * MOVE_SPEED
TargetVx(in) == MulDiv(in.moveX, MOVE_SPEED, MOVE_ONE)

\* C29: handleHorizontalMovement changes vx only: on a player grounded at the
\* end of the previous call vx = moveX * MOVE_SPEED; else, the player not
\* wall-sliding and moveX # 0, vx = vx + (moveX * MOVE_SPEED - vx) * 0.9; else
\* (in the air with zero input, or wall-sliding) vx stays as it was.
C29_HorizontalStep ==
    [][PlayStep =>
          /\ Steered = [Ticked EXCEPT !.vx = Steered.vx]
          /\ Steered.vx =
                IF player.grounded THEN TargetVx(input')
                ELSE IF ~player.wallSliding /\ input'.moveX # 0
                THEN player.vx
                     + MulDiv(TargetVx(input') - player.vx,
                              AIR_CONTROL_NUM, AIR_CONTROL_DEN)
                ELSE player.vx]_vars

\* in the air with zero input the player keeps a horizontal speed
C29_Witness ==
    /\ hist.frames > 1
    /\ ~player.grounded
    /\ ~player.wallSliding
    /\ input.moveX = 0
    /\ player.vx # 0

\* in the air the player has steered against its horizontal speed
C29_WitnessSteer ==
    /\ hist.frames > 1
    /\ ~player.grounded
    /\ input.moveX < 0
    /\ player.vx > 0

\* handleJumping has launched a jump in the call: groundJump and wallJump, and
\* nothing else in handleJumping, set squashStretch
Took == Jumped.squashStretch # Jumper.squashStretch

\* jumpBufferTimer where handleJumping tests it, after the press of the call
Buffered ==
    IF input'.jumpPressed THEN JUMP_BUFFER_TIME ELSE Jumper.jumpBufferTimer

\* C30: a call launches a jump (ground or wall) only with jumpBufferTimer
\* positive where handleJumping tests it, and the launch leaves
\* jumpBufferTimer at zero after handleJumping and at the end of the call;
\* the launches counted so far never exceed the calls with jumpPressed
\* counted so far.
C30_OneLaunchPerPress ==
    [][PlayStep =>
          /\ Took <=> Launches(Jumper, input')
          /\ Took =>
                /\ Buffered > 0
                /\ Jumped.jumpBufferTimer = 0
                /\ player'.jumpBufferTimer = 0
          /\ hist'.launches = hist.launches + (IF Took THEN 1 ELSE 0)
          /\ hist'.presses = hist.presses + (IF input'.jumpPressed THEN 1 ELSE 0)
          /\ hist'.launches <= hist'.presses]_vars

\* two presses have launched two jumps
C30_Witness ==
    /\ hist.launches = 2
    /\ hist.presses = 2
    /\ player.jumpBufferTimer = 0

\* a press has been followed by calls without a second launch, the jump
\* button held all the while
C30_WitnessHeld ==
    /\ hist.launches = 1
    /\ hist.presses = 1
    /\ hist.frames >= 3
    /\ input.jumpHeld

----------------------------------------------------------------------------
(* Rectangles: properties of rectsOverlap *)

\* the four strict inequalities, on the grid
StrictlyInside(a, b) ==
    /\ a.x < b.x + b.width
    /\ a.x + a.width > b.x
    /\ a.y < b.y + b.height
    /\ a.y + a.height > b.y

\* grid rectangles a and b have a tile in common
ShareTile(a, b) ==
    \E cx \in 1..(MaxCoord + MaxSide), cy \in 1..(MaxCoord + MaxSide) :
        /\ a.x <= cx /\ cx < a.x + a.width /\ a.y <= cy /\ cy < a.y + a.height
        /\ b.x <= cx /\ cx < b.x + b.width /\ b.y <= cy /\ cy < b.y + b.height

\* grid rectangles a and b meet in an edge or a corner only
Touching(a, b) ==
    /\ a.x <= b.x + b.width /\ a.x + a.width >= b.x
    /\ a.y <= b.y + b.height /\ a.y + a.height >= b.y
    /\ ~ShareTile(a, b)

\* the player's rectangle in a rectangle query: the tile (a.x, a.y)
PlayerTile == Rect(q.a.x, q.a.y, 1, 1)

\* C20: rectsOverlap(a, b) is true exactly when the four strict inequalities
\* hold, that is when the rectangles share area; rectangles that touch along
\* an edge or at a corner do not overlap; the relation is symmetric; and a
\* hazard or goal that only touches the player's rectangle neither kills nor
\* completes.
C20_StrictOverlap ==
    pc = "rect" /\ q.done =>
        /\ q.overlap <=> StrictlyInside(q.a, q.b)
        /\ q.overlap <=> ShareTile(q.a, q.b)
        /\ Touching(q.a, q.b) => ~q.overlap
        /\ q.overlap <=> q.swapped
        /\ q.kills <=> ShareTile(PlayerTile, q.b)
        /\ q.completes <=> ShareTile(PlayerTile, q.b)
        /\ Touching(PlayerTile, q.b) => ~q.kills /\ ~q.completes

\* a hazard and goal rectangle that touches the player's rectangle along an
\* edge, asked about and found not to overlap
C20_Witness ==
    /\ pc = "rect"
    /\ q.done
    /\ q.a = PlayerTile
    /\ q.b.x = q.a.x + 1
    /\ q.b.y = q.a.y
    /\ Touching(q.a, q.b)
    /\ ~q.overlap /\ ~q.swapped /\ ~q.kills /\ ~q.completes

----------------------------------------------------------------------------
(* Level files: properties of loadLevel, createDefaultLevel and setTile *)

\* C21 (as stated): for every spawn tile (x, y) with x, y >= 0 loadLevel
\* stores spawnX = x * TILE_SIZE + TILE_SIZE / 2 and spawnY likewise, and
\* every field of the stored goal and hazard rectangles is the given field
\* times TILE_SIZE, fields of value 0 included.
C21_TileToWorld ==
    pc = "load" /\ q.done =>
        /\ q.lv.spawnX = q.sx * TILE_SIZE + TILE_SIZE \div 2
        /\ q.lv.spawnY = q.sy * TILE_SIZE + TILE_SIZE \div 2
        /\ q.lv.goalRect = Scaled(q.rect)
        /\ Len(q.lv.hazards) = 1
        /\ q.lv.hazards[1] = Scaled(q.rect)

\* the tile of grid g at (x, y), Empty where the grid has no such row or cell
GridCell(g, x, y) ==
    IF y < Len(g) /\ x < Len(g[y + 1]) THEN g[y + 1][x + 1] ELSE EMPTY

\* C22: every Level made by loadLevel or createDefaultLevel has
\* tiles.length = width * height, also after any sequence of setTile calls
\* with coordinates in or out of range; loadLevel ignores rows beyond height
\* and cells beyond width, and missing rows and cells read as Empty.
C22_TileCount ==
    pc = "tiles" /\ q.made =>
        /\ Len(q.lv.tiles) = q.lv.width * q.lv.height
        /\ q.lv.width > 0 /\ q.lv.height > 0
        /\ q.from = "file" /\ q.sets = 0 =>
              \A x \in 0..(q.lv.width - 1), y \in 0..(q.lv.height - 1) :
                  TileAt(q.lv, y * q.lv.width + x) = GridCell(q.grid, x, y)

\* a level loaded from a grid with a row too many, a cell too many and a cell
\* missing, after setTile calls
C22_Witness ==
    /\ pc = "tiles"
    /\ q.made
    /\ q.from = "file"
    /\ q.sets = MaxSets
    /\ Len(q.grid) > q.lv.height
    /\ Len(q.grid[1]) > q.lv.width
    /\ Len(q.grid[2]) < q.lv.width
    /\ Len(q.lv.tiles) = q.lv.width * q.lv.height

\* C23: init() never leaves the session without a level: when level1.json is
\* missing, or loadLevel returns null because it does not parse, init sets
\* the default level, so Game.level is not null when init spawns the player
\* and in every Game.update after it.
C23_LevelAfterInit ==
    [][/\ pc = "init" =>
            /\ level' # NULL
            /\ loaded'[1] # "ok" => level' = DEFAULT_LEVEL
            /\ loaded'[1] = "ok" => level' = 1
            /\ AtSpawn(player', Lvl(level'))
       /\ pc = "loop" => level # NULL /\ level' # NULL]_vars

\* init() has just run on a level1.json that does not parse
C23_Witness ==
    /\ pc = "loop"
    /\ loaded = <<"bad">>
    /\ totalTime = 0
    /\ state = MENU
    /\ level = DEFAULT_LEVEL
    /\ AtSpawn(player, createDefaultLevel)

----------------------------------------------------------------------------
(* Particles *)

\* the particles of ps that a Particle.update(d) leaves alive
Survivors(ps, d) == SelectSeq(ps, LAMBDA pt : pt.life - d > 0)

\* C31: every Game.update, in every session state, updates the particles:
\* the particles the session had and that stay alive come first, in their
\* order, each with its life reduced by dt, the others are gone, and only a
\* death adds particles (PARTICLE_COUNT of them); after the update every
\* particle of the collection has life > 0.
C31_ParticlesUpdated ==
    [][pc = "loop" =>
          LET kept == Survivors(particles, dt')
              added == IF state = PLAYING /\ state' = DEAD
                       THEN PARTICLE_COUNT ELSE 0
          IN /\ Len(particles') = Len(kept) + added
             /\ \A i \in 1..Len(kept) :
                   particles'[i] = ParticleUpdate(kept[i], dt')
             /\ \A i \in 1..Len(particles') : particles'[i].life > 0]_vars

\* the session is Paused and has just removed particles, others being alive
C31_Witness ==
    /\ state = PAUSED
    /\ particles # << >>
    /\ Len(particles) < PARTICLE_COUNT

\* the session is LevelComplete with particles alive
C31_WitnessComplete ==
    /\ state = LEVEL_COMPLETE
    /\ particles # << >>

----------------------------------------------------------------------------
(* The movement states of the player *)

\* C32: at the end of every Player.update grounded and wallSliding are never
\* both true.
C32_GroundedOrSliding ==
    hist.frames > 0 => ~(player.grounded /\ player.wallSliding)


\* C33: after a jump launch (hist.launched: a launch was made and no call
\* since, the launching one included, has ended grounded) no call launches a
\* ground jump.
C33_NoSecondLaunch ==
    [][PlayStep /\ hist.launched =>
          ~(Launches(Jumper, input') /\ ~Jumper.wallSliding)]_vars

----------------------------------------------------------------------------
(* The collision resolver *)

\* how deep rectangle p reaches into tile (tx, ty): the smallest of the four
\* overlaps, positive when the two share area
DepthIn(p, tx, ty) ==
    LET oL == p.x + p.width \div 2 - tx * TILE_SIZE
        oR == (tx + 1) * TILE_SIZE - (p.x - p.width \div 2)
        oT == p.y + p.height \div 2 - ty * TILE_SIZE
        oB == (ty + 1) * TILE_SIZE - (p.y - p.height \div 2)
    IN Min(Min(oL, oR), Min(oT, oB))

\* the solid tiles of lv that share area with rectangle p
SolidUnder(p, lv) ==
    {t \in ColsOf(p) \X RowsOf(p) :
        isSolidTile(lv, t[1], t[2]) /\ DepthIn(p, t[1], t[2]) > 0}

\* the deepest penetration of p into a solid tile, 0 when it is in none
Penetration(p, lv) ==
    LET ds == {DepthIn(p, t[1], t[2]) : t \in SolidUnder(p, lv)} \cup {0}
    IN CHOOSE m \in ds : \A n \in ds : n <= m

\* the player resolveCollisions leaves in the call being made
Resolved == resolveCollisions(Mover, Lvl(level))

\* C34: when the player resolveCollisions starts from reaches less than one
\* tile size into the solid tiles, the player it leaves shares no area with
\* a solid tile, and has been moved along neither axis by more than the
\* deepest penetration.
C34_ResolverPost ==
    [][PlayStep /\ Penetration(Mover, Lvl(level)) < TILE_SIZE =>
          /\ SolidUnder(Resolved, Lvl(level)) = {}
          /\ Abs(Resolved.x - Mover.x) <= Penetration(Mover, Lvl(level))
          /\ Abs(Resolved.y - Mover.y) <= Penetration(Mover, Lvl(level))]_vars


\* the solid tiles rectangle p reaches into are all tiles of the bottom row of
\* lv: p is over the floor and at no wall
OnlyFloor(p, lv) ==
    \A tx \in ColsOf(p), ty \in RowsOf(p) :
        isSolidTile(lv, tx, ty) =>
            /\ ty = lv.height - 1
            /\ tx >= 0 /\ tx < lv.width

\* C35: a grounded player moved horizontally over the flat floor, with no
\* other solid tile at its rectangle, is not resolved horizontally:
\* resolveCollisions neither shifts x nor zeroes vx.
C35_NoSeamSnag ==
    [][PlayStep /\ player.grounded /\ input'.moveX # 0
              /\ OnlyFloor(Mover, Lvl(level)) =>
          /\ Resolved.x = Mover.x
          /\ Resolved.vx = Mover.vx]_vars

----------------------------------------------------------------------------
(* The session: hazards, goal, deaths and levels *)

\* the rectangle of player p shares area with a hazard of lv
InHazard(p, lv) ==
    \E i \in 1..Len(lv.hazards) : StrictlyInside(getPlayerRect(p), lv.hazards[i])

\* the rectangle of player p shares area with the goal of lv
InGoal(p, lv) == StrictlyInside(getPlayerRect(p), lv.goalRect)

\* C36: when the player update of a Playing frame leaves the player's
\* rectangle sharing area with a hazard and with the goal, the session
\* becomes Dead, the death is counted, and it does not become LevelComplete.
C36_HazardBeforeGoal ==
    [][PlayingStep /\ InHazard(UpdatedPlayer, Lvl(level))
                   /\ InGoal(UpdatedPlayer, Lvl(level)) =>
          /\ state' = DEAD
          /\ deathCount' = deathCount + 1
          /\ player' = UpdatedPlayer]_vars

\* the session is Dead with the player in a hazard and in the goal
C36_Witness ==
    /\ pc = "loop"
    /\ state = DEAD
    /\ InHazard(player, Lvl(level))
    /\ InGoal(player, Lvl(level))


\* C37: deathCount is 0 when the session is created, every transition from
\* Playing to Dead adds exactly 1 to it, and no other step changes it: not
\* the respawn, the pause, the level advance, nor a frame that stays in its
\* state.
C37_DeathCount ==
    [][/\ pc = "init" => deathCount = 0 /\ deathCount' = 0
       /\ pc = "loop" =>
             deathCount' = deathCount
                 + (IF state = PLAYING /\ state' = DEAD THEN 1 ELSE 0)
       /\ state' = DEAD /\ state # DEAD => state = PLAYING]_vars

\* two deaths counted, the player respawned and the level then completed
C37_Witness ==
    /\ deathCount = 2
    /\ state = LEVEL_COMPLETE


\* C38: after every advance from LevelComplete to Playing the session's level
\* is the one loaded from level<currentLevelIndex + 1>.json, whatever the
\* loader made of the files.
C38_IndexNamesLevel ==
    [][pc = "loop" /\ state = LEVEL_COMPLETE /\ state' = PLAYING =>
          level' = currentLevelIndex' + 1]_vars


\* C40: with Input.update feeding Game.update once per frame, the session
\* changes between Playing and Paused at most once while START (or SELECT)
\* stays down.
C40_OneToggleWhileDown == hist.toggles <= 1


\* the part of the player that Player.update's motion reads and writes
Motion(p) ==
    <<p.x, p.y, p.vx, p.vy, p.grounded, p.wallSliding, p.canVariableJump,
      p.coyoteTimer, p.jumpBufferTimer, p.wallJumpCooldown>>

\* C39: in Playing over the pit (no solid tile in the player's columns at or
\* below the player), whatever the inputs without pause and the frame times,
\* the session eventually becomes Dead: the side walls do not hold the
\* player, so no update that leaves the session Playing returns the player to
\* the position and motion it had before the update (the same input and frame
\* time again and again would then keep the session Playing for ever).
C39_FallsOut ==
    [][PitUpdate /\ state' = PLAYING => Motion(player') # Motion(player)]_vars

====
